---- MODULE Spec2Model ----
(***************************************************************************)
(* The Go (Weiqi) rules engine GoRules of js/game/rules.js as a state      *)
(* machine: the grid, the turn, the capture tallies, the ko point, the     *)
(* last move, the move log and the snapshot history, with one action per   *)
(* public method.  Every method is an operator over the engine record      *)
(* ("this") that returns the engine after the call and the returned value. *)
(***************************************************************************)
EXTENDS Integers, Sequences, FiniteSets, TLC

VARIABLES board, currentPlayer, capturedBlack, capturedWhite, lastMove,
          koPoint, moveHistory, boardHistory

\* The game around the engine (WeiqiGame of js/main.js): the screen, the
\* opponent configuration, the move selector it holds (null, or the level
\* the selector was made with), the save slots of its StorageManager, the
\* number of makeAIMove callbacks handed to setTimeout and not yet run, and
\* the result shown when the game is over.  gameAiColor is the field aiColor
\* of the game.  arrays names the pair of array
\* objects that the engine holds as moveHistory and boardHistory: a save
\* slot that holds the same pair sees every push and pop the engine makes.
VARIABLES gameState, gameMode, gameAiColor, aiLevel, playerColor, ai, saves,
          timers, gameResult, arrays

rulesVars == <<board, currentPlayer, capturedBlack, capturedWhite, lastMove,
               koPoint, moveHistory, boardHistory>>
gameVars == <<gameState, gameMode, gameAiColor, aiLevel, playerColor, ai, saves,
              timers, gameResult, arrays>>
vars == <<rulesVars, gameVars>>

(***************************************************************************)
(* Constants of rules.js and the bounds of the model.                      *)
(***************************************************************************)
EMPTY == 0
BLACK == 1
WHITE == 2

\* The size handed to the constructor (rules.js reads it as this.size).
Size == 3
\* The longest move log the model explores under Spec.
MaxPlies == 5
\* The longest move log the model explores under SpecDeep.
DeepPlies == 6
\* Callers offer moves on the cells at most Reach steps from the corner (0,0).
Reach == 2

\* The reasons of a rejected move (the source's literals are Chinese text).
ReasonOutOfRange == "out of range"
ReasonOccupied == "occupied"
ReasonKo == "ko"
ReasonSuicide == "suicide"
ReasonNoUndo == "nothing to undo"

\* A JavaScript null is the empty tuple, an object o is <<o>>.
null == << >>
Obj(o) == <<o>>

Idx == 0 .. (Size - 1)
Players == {BLACK, WHITE}
\* The coordinates callers hand to isValidMove and makeMove: the cells in
\* reach and three points off the board (x < 0, y >= size, x >= size with y < 0).
Offered == {c \in Idx \X Idx : c[1] + c[2] <= Reach}
             \cup {<<-1, 0>>, <<0, Size>>, <<Size, -1>>}

\* The coordinates callers ask isValidMove about between plies: the corner,
\* its two neighbours and a point off the board.
Asked == {<<0, 0>>, <<0, 1>>, <<1, 0>>, <<-1, 0>>}

Pos(x, y) == [x |-> x, y |-> y]
\* The key `${x},${y}` of a position: its two decimal fields.
Key(x, y) == <<x, y>>
\* libertyKey.split(',').map(Number)
KeyPos(k) == Pos(k[1], k[2])

\* The engine record ("this") made of the live variables.
This == [board |-> board, currentPlayer |-> currentPlayer,
         capturedBlack |-> capturedBlack, capturedWhite |-> capturedWhite,
         lastMove |-> lastMove, koPoint |-> koPoint,
         moveHistory |-> moveHistory, boardHistory |-> boardHistory]

(***************************************************************************)
(* Helpers of the engine.                                                  *)
(***************************************************************************)
EmptyBoard == [i \in Idx |-> [j \in Idx |-> EMPTY]]

\* this.board[x][y] = v
SetCell(b, x, y, v) == [b EXCEPT ![x][y] = v]

saveBoardState(e) ==
  [e EXCEPT !.boardHistory = Append(@,
     [board |-> e.board, currentPlayer |-> e.currentPlayer,
      capturedBlack |-> e.capturedBlack, capturedWhite |-> e.capturedWhite,
      koPoint |-> e.koPoint, lastMove |-> e.lastMove])]

init(e) ==
  saveBoardState([board |-> EmptyBoard, currentPlayer |-> BLACK,
                  capturedBlack |-> 0, capturedWhite |-> 0,
                  lastMove |-> null, koPoint |-> null,
                  moveHistory |-> << >>, boardHistory |-> << >>])

getOpponent(player) == IF player = BLACK THEN WHITE ELSE BLACK

isOnBoard(x, y) == x >= 0 /\ x < Size /\ y >= 0 /\ y < Size

directions == << <<-1, 0>>, <<1, 0>>, <<0, -1>>, <<0, 1>> >>

getNeighbors(x, y) ==
  LET all == [i \in 1 .. 4 |-> Pos(x + directions[i][1], y + directions[i][2])]
  IN SelectSeq(all, LAMBDA n : isOnBoard(n.x, n.y))

\* The elements of a sequence.
Range(s) == {s[i] : i \in 1 .. Len(s)}

\* The while loop of getGroup: one iteration per queue element.
RECURSIVE GroupLoop(_, _, _, _, _, _)
GroupLoop(b, color, queue, visited, stones, liberties) ==
  IF Len(queue) = 0 THEN [stones |-> stones, liberties |-> liberties]
  ELSE LET current == Head(queue)
           neighbors == getNeighbors(current.x, current.y)
           fresh == SelectSeq(neighbors, LAMBDA n :
                      /\ b[n.x][n.y] = color
                      /\ Key(n.x, n.y) \notin visited)
           libs == {Key(n.x, n.y) : n \in
                      {m \in Range(neighbors) : b[m.x][m.y] = EMPTY}}
       IN GroupLoop(b, color, Tail(queue) \o fresh,
                    visited \cup {Key(n.x, n.y) : n \in Range(fresh)},
                    Append(stones, current), liberties \cup libs)

getGroup(b, x, y) ==
  LET color == b[x][y]
  IN IF color = EMPTY THEN [stones |-> << >>, liberties |-> {}]
     ELSE GroupLoop(b, color, <<Pos(x, y)>>, {Key(x, y)}, << >>, {})

countLiberties(b, x, y) == Cardinality(getGroup(b, x, y).liberties)

\* The for loop of removeGroup: every listed stone is set to EMPTY.
RECURSIVE ClearStones(_, _)
ClearStones(b, stones) ==
  IF Len(stones) = 0 THEN b
  ELSE ClearStones(SetCell(b, Head(stones).x, Head(stones).y, EMPTY), Tail(stones))

removeGroup(e, stones) ==
  LET color == e.board[stones[1].x][stones[1].y]
      cleared == [e EXCEPT !.board = ClearStones(e.board, stones)]
  IN [e |-> IF color = BLACK
              THEN [cleared EXCEPT !.capturedBlack = @ + Len(stones)]
              ELSE [cleared EXCEPT !.capturedWhite = @ + Len(stones)],
      ret |-> Len(stones)]

\* The for loop of getCapturedStones over the neighbours, in order.
RECURSIVE CapturedLoop(_, _, _, _)
CapturedLoop(b, opponent, neighbors, captured) ==
  IF Len(neighbors) = 0 THEN captured
  ELSE LET neighbor == Head(neighbors)
           group == getGroup(b, neighbor.x, neighbor.y)
       IN CapturedLoop(b, opponent, Tail(neighbors),
            IF b[neighbor.x][neighbor.y] = opponent
               /\ Cardinality(group.liberties) = 0
              THEN captured \o group.stones
              ELSE captured)

getCapturedStones(b, x, y, player) ==
  CapturedLoop(b, getOpponent(player), getNeighbors(x, y), << >>)

\* hasLibertyAfterMove that takes a friendly neighbour for a liberty.
hasLibertyOrFriend(b, x, y, player) ==
  \E n \in Range(getNeighbors(x, y)) : b[n.x][n.y] \in {EMPTY, player}

hasLibertyAfterMove(b, x, y, player) ==
  Cardinality(getGroup(b, x, y).liberties) > 0

\* isKoPoint that takes a coordinate 0 of the ko point for "no ko point".
isKoPointFalsyZero(e, x, y) ==
  IF e.koPoint = null THEN FALSE
  ELSE /\ e.koPoint[1].x # 0 /\ e.koPoint[1].y # 0
       /\ e.koPoint[1].x = x /\ e.koPoint[1].y = y

isKoPoint(e, x, y) ==
  IF e.koPoint = null THEN FALSE
  ELSE e.koPoint[1].x = x /\ e.koPoint[1].y = y

(***************************************************************************)
(* The public methods.  Each returns [e |-> the engine after the call,     *)
(* ret |-> the returned object].                                           *)
(***************************************************************************)
\* isValidMove that leaves the trial stone on the board when it rejects a suicide.
isValidMoveKeepsTrialStone(e, x, y, player) ==
  IF ~isOnBoard(x, y)
    THEN [e |-> e, ret |-> [valid |-> FALSE, reason |-> ReasonOutOfRange]]
  ELSE IF e.board[x][y] # EMPTY
    THEN [e |-> e, ret |-> [valid |-> FALSE, reason |-> ReasonOccupied]]
  ELSE IF isKoPoint(e, x, y)
    THEN [e |-> e, ret |-> [valid |-> FALSE, reason |-> ReasonKo]]
  ELSE
    LET placed == [e EXCEPT !.board = SetCell(@, x, y, player)]
        captured == getCapturedStones(placed.board, x, y, player)
        restored == [placed EXCEPT !.board = SetCell(@, x, y, EMPTY)]
    IN IF Len(captured) > 0
         THEN [e |-> restored, ret |-> [valid |-> TRUE, captured |-> captured]]
       ELSE IF ~hasLibertyAfterMove(placed.board, x, y, player)
         THEN [e |-> placed, ret |-> [valid |-> FALSE, reason |-> ReasonSuicide]]
       ELSE [e |-> restored, ret |-> [valid |-> TRUE, captured |-> << >>]]

\* isValidMove that judges suicide before it looks for captures.
isValidMoveSuicideFirst(e, x, y, player) ==
  IF ~isOnBoard(x, y)
    THEN [e |-> e, ret |-> [valid |-> FALSE, reason |-> ReasonOutOfRange]]
  ELSE IF e.board[x][y] # EMPTY
    THEN [e |-> e, ret |-> [valid |-> FALSE, reason |-> ReasonOccupied]]
  ELSE IF isKoPoint(e, x, y)
    THEN [e |-> e, ret |-> [valid |-> FALSE, reason |-> ReasonKo]]
  ELSE
    LET placed == [e EXCEPT !.board = SetCell(@, x, y, player)]
        captured == getCapturedStones(placed.board, x, y, player)
        restored == [placed EXCEPT !.board = SetCell(@, x, y, EMPTY)]
    IN IF ~hasLibertyAfterMove(placed.board, x, y, player)
         THEN [e |-> restored, ret |-> [valid |-> FALSE, reason |-> ReasonSuicide]]
       ELSE [e |-> restored, ret |-> [valid |-> TRUE, captured |-> captured]]

isValidMove(e, x, y, player) ==
  IF ~isOnBoard(x, y)
    THEN [e |-> e, ret |-> [valid |-> FALSE, reason |-> ReasonOutOfRange]]
  ELSE IF e.board[x][y] # EMPTY
    THEN [e |-> e, ret |-> [valid |-> FALSE, reason |-> ReasonOccupied]]
  ELSE IF isKoPoint(e, x, y)
    THEN [e |-> e, ret |-> [valid |-> FALSE, reason |-> ReasonKo]]
  ELSE
    LET placed == [e EXCEPT !.board = SetCell(@, x, y, player)]
        captured == getCapturedStones(placed.board, x, y, player)
        restored == [placed EXCEPT !.board = SetCell(@, x, y, EMPTY)]
    IN IF Len(captured) > 0
         THEN [e |-> restored, ret |-> [valid |-> TRUE, captured |-> captured]]
       ELSE IF ~hasLibertyAfterMove(placed.board, x, y, player)
         THEN [e |-> restored, ret |-> [valid |-> FALSE, reason |-> ReasonSuicide]]
       ELSE [e |-> restored, ret |-> [valid |-> TRUE, captured |-> << >>]]

\* The ko check that accepts a capturing stone with any number of liberties.
koAfterMoveAnyLiberty(b, x, y, capturedCount) ==
  LET myGroup == getGroup(b, x, y)
  IN IF capturedCount = 1
        /\ Len(myGroup.stones) = 1
        /\ Cardinality(myGroup.liberties) >= 1
       THEN Obj(KeyPos(CHOOSE k \in myGroup.liberties : TRUE))
       ELSE null

\* The ko check that names the cell of the stone just placed.
koAfterMoveOwnCell(b, x, y, capturedCount) ==
  LET myGroup == getGroup(b, x, y)
  IN IF capturedCount = 1
        /\ Len(myGroup.stones) = 1
        /\ Cardinality(myGroup.liberties) = 1
       THEN Obj(Pos(x, y))
       ELSE null

\* The ko check of makeMove: the ko point a move leaves behind.
koAfterMove(b, x, y, capturedCount) ==
  LET myGroup == getGroup(b, x, y)
  IN IF capturedCount = 1
        /\ Len(myGroup.stones) = 1
        /\ Cardinality(myGroup.liberties) = 1
       THEN Obj(KeyPos(CHOOSE k \in myGroup.liberties : TRUE))
       ELSE null

\* makeMove that counts the stones it captures and leaves them on the board.
applyMoveLeavesCaptured(e, x, y, player) ==
  LET placed == [e EXCEPT !.board = SetCell(@, x, y, player)]
      captured == getCapturedStones(placed.board, x, y, player)
      capturedCount == Len(captured)
      ko == koAfterMove(placed.board, x, y, capturedCount)
      logged == [placed EXCEPT
                   !.koPoint = ko,
                   !.lastMove = Obj([x |-> x, y |-> y, player |-> player]),
                   !.moveHistory = Append(@, [x |-> x, y |-> y,
                       player |-> player, captured |-> capturedCount]),
                   !.currentPlayer = getOpponent(player)]
  IN [e |-> saveBoardState(logged),
      ret |-> [success |-> TRUE, captured |-> capturedCount, koPoint |-> ko]]

\* makeMove once the move is validated: place, capture, ko, log, switch, save.
applyMove(e, x, y, player) ==
  LET placed == [e EXCEPT !.board = SetCell(@, x, y, player)]
      captured == getCapturedStones(placed.board, x, y, player)
      removal == IF Len(captured) > 0 THEN removeGroup(placed, captured)
                 ELSE [e |-> placed, ret |-> 0]
      capturedCount == removal.ret
      ko == koAfterMove(removal.e.board, x, y, capturedCount)
      logged == [removal.e EXCEPT
                   !.koPoint = ko,
                   !.lastMove = Obj([x |-> x, y |-> y, player |-> player]),
                   !.moveHistory = Append(@, [x |-> x, y |-> y,
                       player |-> player, captured |-> capturedCount]),
                   !.currentPlayer = getOpponent(player)]
  IN [e |-> saveBoardState(logged),
      ret |-> [success |-> TRUE, captured |-> capturedCount, koPoint |-> ko]]

\* makeMove that hands the turn over also when it rejects the move.
makeMoveSwitchesOnReject(e, x, y, player) ==
  LET validation == isValidMove(e, x, y, player)
  IN IF ~validation.ret.valid
       THEN [e |-> [validation.e EXCEPT !.currentPlayer = getOpponent(player)],
             ret |-> [success |-> FALSE, reason |-> validation.ret.reason]]
     ELSE applyMove(validation.e, x, y, player)

makeMove(e, x, y, player) ==
  LET validation == isValidMove(e, x, y, player)
  IN IF ~validation.ret.valid
       THEN [e |-> validation.e,
             ret |-> [success |-> FALSE, reason |-> validation.ret.reason]]
     ELSE applyMove(validation.e, x, y, player)

\* undoMove that restores the snapshot it has just popped.
undoMoveStale(e) ==
  IF Len(e.boardHistory) <= 1
    THEN [e |-> e, ret |-> [success |-> FALSE, reason |-> ReasonNoUndo]]
  ELSE
    LET bh == SubSeq(e.boardHistory, 1, Len(e.boardHistory) - 1)
        mh == SubSeq(e.moveHistory, 1, Len(e.moveHistory) - 1)
        prevState == e.boardHistory[Len(e.boardHistory)]
    IN [e |-> [board |-> prevState.board,
               currentPlayer |-> prevState.currentPlayer,
               capturedBlack |-> prevState.capturedBlack,
               capturedWhite |-> prevState.capturedWhite,
               koPoint |-> prevState.koPoint,
               lastMove |-> prevState.lastMove,
               moveHistory |-> mh, boardHistory |-> bh],
        ret |-> [success |-> TRUE]]

\* undoMove that pops the snapshot and forgets to pop the move log.
undoMoveKeepsLog(e) ==
  IF Len(e.boardHistory) <= 1
    THEN [e |-> e, ret |-> [success |-> FALSE, reason |-> ReasonNoUndo]]
  ELSE
    LET bh == SubSeq(e.boardHistory, 1, Len(e.boardHistory) - 1)
        prevState == bh[Len(bh)]
    IN [e |-> [board |-> prevState.board,
               currentPlayer |-> prevState.currentPlayer,
               capturedBlack |-> prevState.capturedBlack,
               capturedWhite |-> prevState.capturedWhite,
               koPoint |-> prevState.koPoint,
               lastMove |-> prevState.lastMove,
               moveHistory |-> e.moveHistory, boardHistory |-> bh],
        ret |-> [success |-> TRUE]]

\* undoMove whose guard is length < 1: on the initial snapshot alone it pops
\* both logs and then throws on the missing previous snapshot.
undoMoveGuardOffByOne(e) ==
  IF Len(e.boardHistory) < 1
    THEN [e |-> e, ret |-> [success |-> FALSE, reason |-> ReasonNoUndo]]
  ELSE
    LET bh == SubSeq(e.boardHistory, 1, Len(e.boardHistory) - 1)
        mh == SubSeq(e.moveHistory, 1, Len(e.moveHistory) - 1)
    IN IF Len(bh) = 0
         THEN [e |-> [e EXCEPT !.moveHistory = mh, !.boardHistory = bh],
               ret |-> [threw |-> "TypeError"]]
       ELSE
         LET prevState == bh[Len(bh)]
         IN [e |-> [board |-> prevState.board,
                    currentPlayer |-> prevState.currentPlayer,
                    capturedBlack |-> prevState.capturedBlack,
                    capturedWhite |-> prevState.capturedWhite,
                    koPoint |-> prevState.koPoint,
                    lastMove |-> prevState.lastMove,
                    moveHistory |-> mh, boardHistory |-> bh],
             ret |-> [success |-> TRUE]]

undoMove(e) ==
  IF Len(e.boardHistory) <= 1
    THEN [e |-> e, ret |-> [success |-> FALSE, reason |-> ReasonNoUndo]]
  ELSE
    LET bh == SubSeq(e.boardHistory, 1, Len(e.boardHistory) - 1)
        mh == SubSeq(e.moveHistory, 1, Len(e.moveHistory) - 1)
        prevState == bh[Len(bh)]
    IN [e |-> [board |-> prevState.board,
               currentPlayer |-> prevState.currentPlayer,
               capturedBlack |-> prevState.capturedBlack,
               capturedWhite |-> prevState.capturedWhite,
               koPoint |-> prevState.koPoint,
               lastMove |-> prevState.lastMove,
               moveHistory |-> mh, boardHistory |-> bh],
        ret |-> [success |-> TRUE]]

IsPassEntry(m) == "isPass" \in DOMAIN m

\* pass that takes its snapshot before it hands the turn over.
passSavesFirst(e) ==
  LET player == e.currentPlayer
      saved == saveBoardState([e EXCEPT
                 !.moveHistory = Append(@, [x |-> -1, y |-> -1,
                                            player |-> player, isPass |-> TRUE])])
      after == [saved EXCEPT !.currentPlayer = getOpponent(player),
                             !.koPoint = null]
      history == after.moveHistory
      n == Len(history)
  IN [e |-> after,
      ret |-> [success |-> TRUE,
               gameEnd |-> /\ n >= 2
                           /\ IsPassEntry(history[n - 1])
                           /\ IsPassEntry(history[n])]]

\* pass that leaves the ko point standing.
passKeepsKo(e) ==
  LET player == e.currentPlayer
      after == saveBoardState([e EXCEPT
                 !.moveHistory = Append(@, [x |-> -1, y |-> -1,
                                            player |-> player, isPass |-> TRUE]),
                 !.currentPlayer = getOpponent(player)])
      history == after.moveHistory
      n == Len(history)
  IN [e |-> after,
      ret |-> [success |-> TRUE,
               gameEnd |-> /\ n >= 2
                           /\ IsPassEntry(history[n - 1])
                           /\ IsPassEntry(history[n])]]

\* pass that ends the game on the second pass of the log, consecutive or not.
passCountsPasses(e) ==
  LET player == e.currentPlayer
      after == saveBoardState([e EXCEPT
                 !.moveHistory = Append(@, [x |-> -1, y |-> -1,
                                            player |-> player, isPass |-> TRUE]),
                 !.currentPlayer = getOpponent(player),
                 !.koPoint = null])
      history == after.moveHistory
  IN [e |-> after,
      ret |-> [success |-> TRUE,
               gameEnd |-> Cardinality({i \in 1 .. Len(history) :
                                          IsPassEntry(history[i])}) >= 2]]

pass(e) ==
  LET player == e.currentPlayer
      after == saveBoardState([e EXCEPT
                 !.moveHistory = Append(@, [x |-> -1, y |-> -1,
                                            player |-> player, isPass |-> TRUE]),
                 !.currentPlayer = getOpponent(player),
                 !.koPoint = null])
      history == after.moveHistory
      n == Len(history)
  IN [e |-> after,
      ret |-> [success |-> TRUE,
               gameEnd |-> /\ n >= 2
                           /\ IsPassEntry(history[n - 1])
                           /\ IsPassEntry(history[n])]]

\* getBoardState(): the grid copied row by row, the scalar fields, and the
\* length of the move log as moveCount; the two logs are not part of it.
getBoardState(e) ==
  [e |-> e,
   ret |-> [board |-> e.board,
            currentPlayer |-> e.currentPlayer,
            capturedBlack |-> e.capturedBlack,
            capturedWhite |-> e.capturedWhite,
            lastMove |-> e.lastMove,
            koPoint |-> e.koPoint,
            moveCount |-> Len(e.moveHistory)]]

\* loadState(state): moveHistory and boardHistory default to [] when the
\* state object has none.
loadState(e, state) ==
  [e |-> [e EXCEPT
            !.board = state.board,
            !.currentPlayer = state.currentPlayer,
            !.capturedBlack = state.capturedBlack,
            !.capturedWhite = state.capturedWhite,
            !.lastMove = state.lastMove,
            !.koPoint = state.koPoint,
            !.moveHistory = IF "moveHistory" \in DOMAIN state
                              THEN state.moveHistory ELSE << >>,
            !.boardHistory = IF "boardHistory" \in DOMAIN state
                               THEN state.boardHistory ELSE << >>],
   ret |-> null]

\* The cells in the order of the nested loops: x ascending, then y ascending.
ScanOrder == [i \in 1 .. Size * Size |-> Pos((i - 1) \div Size, (i - 1) % Size)]

\* getAllValidMoves that lists every empty cell.
getAllValidMovesEmptyCells(e, player) ==
  [e |-> e,
   ret |-> SelectSeq(ScanOrder, LAMBDA m : e.board[m.x][m.y] = EMPTY)]

getAllValidMoves(e, player) ==
  [e |-> e,
   ret |-> SelectSeq(ScanOrder, LAMBDA m : isValidMove(e, m.x, m.y, player).ret.valid)]

\* The while loop of calculateTerritory looking at the colours around the
\* first cell of the region only.
RECURSIVE RegionLoopFirstCell(_, _, _, _, _, _)
RegionLoopFirstCell(b, queue, visited, region, touchesBlack, touchesWhite) ==
  IF Len(queue) = 0
    THEN [region |-> region, visited |-> visited,
          touchesBlack |-> touchesBlack, touchesWhite |-> touchesWhite]
  ELSE LET current == Head(queue)
           neighbors == getNeighbors(current.x, current.y)
           fresh == SelectSeq(neighbors, LAMBDA n :
                      /\ b[n.x][n.y] = EMPTY
                      /\ Key(n.x, n.y) \notin visited)
           first == Len(region) = 0
       IN RegionLoopFirstCell(b, Tail(queue) \o fresh,
            visited \cup {Key(n.x, n.y) : n \in Range(fresh)},
            Append(region, current),
            touchesBlack \/ (first /\ \E n \in Range(neighbors) : b[n.x][n.y] = BLACK),
            touchesWhite \/ (first /\ \E n \in Range(neighbors) : b[n.x][n.y] = WHITE))

\* The while loop of calculateTerritory: one iteration per queue element.
RECURSIVE RegionLoop(_, _, _, _, _, _)
RegionLoop(b, queue, visited, region, touchesBlack, touchesWhite) ==
  IF Len(queue) = 0
    THEN [region |-> region, visited |-> visited,
          touchesBlack |-> touchesBlack, touchesWhite |-> touchesWhite]
  ELSE LET current == Head(queue)
           neighbors == getNeighbors(current.x, current.y)
           fresh == SelectSeq(neighbors, LAMBDA n :
                      /\ b[n.x][n.y] = EMPTY
                      /\ Key(n.x, n.y) \notin visited)
       IN RegionLoop(b, Tail(queue) \o fresh,
                     visited \cup {Key(n.x, n.y) : n \in Range(fresh)},
                     Append(region, current),
                     touchesBlack \/ \E n \in Range(neighbors) : b[n.x][n.y] = BLACK,
                     touchesWhite \/ \E n \in Range(neighbors) : b[n.x][n.y] = WHITE)

\* The nested for loops of calculateTerritory over the cells still to scan.
RECURSIVE TerritoryLoop(_, _, _, _)
TerritoryLoop(b, cells, visited, territory) ==
  IF Len(cells) = 0 THEN territory
  ELSE LET c == Head(cells)
       IN IF b[c.x][c.y] # EMPTY \/ Key(c.x, c.y) \in visited
            THEN TerritoryLoop(b, Tail(cells), visited, territory)
          ELSE LET r == RegionLoop(b, <<c>>, visited \cup {Key(c.x, c.y)},
                                   << >>, FALSE, FALSE)
                   n == Len(r.region)
               IN TerritoryLoop(b, Tail(cells), r.visited,
                    IF r.touchesBlack /\ ~r.touchesWhite
                      THEN [territory EXCEPT !.black = @ + n]
                    ELSE IF r.touchesWhite /\ ~r.touchesBlack
                      THEN [territory EXCEPT !.white = @ + n]
                    ELSE [territory EXCEPT !.neutral = @ + n])

calculateTerritory(e) ==
  [e |-> e,
   ret |-> TerritoryLoop(e.board, ScanOrder, {},
                         [black |-> 0, white |-> 0, neutral |-> 0])]

\* Scores are counted in half points, so that the 7.5 points added to white's
\* score are the integer 15: a score of s points is the number 2 * s.
KomiHalves == 15
Halves(points) == 2 * points

\* The counting loops of calculateScore.
CountStones(b, color) ==
  Len(SelectSeq(ScanOrder, LAMBDA c : b[c.x][c.y] = color))

\* calculateScore that also credits each side with the stones it has taken.
calculateScoreCountsPrisoners(e) ==
  LET territory == calculateTerritory(e).ret
      blackStones == CountStones(e.board, BLACK)
      whiteStones == CountStones(e.board, WHITE)
      blackScore == Halves(blackStones + territory.black + e.capturedWhite)
      whiteScore == Halves(whiteStones + territory.white + e.capturedBlack)
                      + KomiHalves
  IN [e |-> e,
      ret |-> [black |-> blackScore, white |-> whiteScore,
               blackStones |-> blackStones, whiteStones |-> whiteStones,
               blackTerritory |-> territory.black,
               whiteTerritory |-> territory.white,
               winner |-> IF blackScore > whiteScore THEN BLACK ELSE WHITE,
               margin |-> IF blackScore >= whiteScore
                            THEN blackScore - whiteScore
                          ELSE whiteScore - blackScore]]

\* calculateScore with the margin taken as black's score minus white's.
calculateScoreAtSignedMargin(e, komi) ==
  LET territory == calculateTerritory(e).ret
      blackStones == CountStones(e.board, BLACK)
      whiteStones == CountStones(e.board, WHITE)
      blackScore == Halves(blackStones + territory.black)
      whiteScore == Halves(whiteStones + territory.white) + komi
  IN [e |-> e,
      ret |-> [black |-> blackScore, white |-> whiteScore,
               blackStones |-> blackStones, whiteStones |-> whiteStones,
               blackTerritory |-> territory.black,
               whiteTerritory |-> territory.white,
               winner |-> IF blackScore > whiteScore THEN BLACK ELSE WHITE,
               margin |-> blackScore - whiteScore]]

\* calculateScore with the winner compared by >=.
calculateScoreAtBlackOnTie(e, komi) ==
  LET territory == calculateTerritory(e).ret
      blackStones == CountStones(e.board, BLACK)
      whiteStones == CountStones(e.board, WHITE)
      blackScore == Halves(blackStones + territory.black)
      whiteScore == Halves(whiteStones + territory.white) + komi
  IN [e |-> e,
      ret |-> [black |-> blackScore, white |-> whiteScore,
               blackStones |-> blackStones, whiteStones |-> whiteStones,
               blackTerritory |-> territory.black,
               whiteTerritory |-> territory.white,
               winner |-> IF blackScore >= whiteScore THEN BLACK ELSE WHITE,
               margin |-> IF blackScore >= whiteScore
                            THEN blackScore - whiteScore
                          ELSE whiteScore - blackScore]]

\* The body of calculateScore with the number added to white's score (the
\* literal 7.5 of the source) as komi, in half points.  The fields black,
\* white and margin of the result are in half points.
calculateScoreAt(e, komi) ==
  LET territory == calculateTerritory(e).ret
      blackStones == CountStones(e.board, BLACK)
      whiteStones == CountStones(e.board, WHITE)
      blackScore == Halves(blackStones + territory.black)
      whiteScore == Halves(whiteStones + territory.white) + komi
  IN [e |-> e,
      ret |-> [black |-> blackScore, white |-> whiteScore,
               blackStones |-> blackStones, whiteStones |-> whiteStones,
               blackTerritory |-> territory.black,
               whiteTerritory |-> territory.white,
               winner |-> IF blackScore > whiteScore THEN BLACK ELSE WHITE,
               margin |-> IF blackScore >= whiteScore
                            THEN blackScore - whiteScore
                          ELSE whiteScore - blackScore]]

\* calculateScore(): white's score gets the 7.5 points.
calculateScore(e) == calculateScoreAt(e, KomiHalves)

(***************************************************************************)
(* The move selector (GoAI). Its methods take the engine e it holds as     *)
(* this.rules and give back the engine they leave.                         *)
(***************************************************************************)
Levels == {"easy", "medium", "hard"}

\* Math.random() gives one of the fractions k / RandomGrain, 0 <= k < RandomGrain,
\* any of them at every call, whatever it gave before. A method that calls it
\* is the set of the results it can have, one for every run of draws.
RandomGrain == Size * Size
Fractions == 0 .. (RandomGrain - 1)
\* Math.floor(Math.random() * length) when the source gives k / RandomGrain.
RandomIndex(k, length) == (k * length) \div RandomGrain

\* list[Math.floor(Math.random() * list.length)]: what a draw can pick.
Drawn(list) == {list[RandomIndex(k, Len(list)) + 1] : k \in Fractions}

Min2(a, b) == IF a <= b THEN a ELSE b
Abs(n) == IF n >= 0 THEN n ELSE -n

\* The evaluation scores are counted in tenths of a point, so that the
\* 0.1 steps of getPositionScore are integers: s points are the number 10 * s.
Tenths(points) == 10 * points

getPositionScore(x, y) ==
  LET center == Size \div 2
      distFromEdge == Min2(Min2(x, y), Min2(Size - 1 - x, Size - 1 - y))
      distFromCenter == Abs(x - center) + Abs(y - center)
  IN IF distFromEdge <= 3
       THEN IF \/ x <= 3 /\ y <= 3
               \/ x <= 3 /\ y >= Size - 4
               \/ x >= Size - 4 /\ y <= 3
               \/ x >= Size - 4 /\ y >= Size - 4
              THEN Tenths(5)
            ELSE Tenths(3)
     ELSE IF Tenths(2) - distFromCenter >= 0
       THEN Tenths(2) - distFromCenter
     ELSE 0

\* The number of neighbours of (x, y) holding a stone of the colour.
CountNeighbors(b, x, y, color) ==
  Len(SelectSeq(getNeighbors(x, y), LAMBDA n : b[n.x][n.y] = color))

getConnectionScore(b, x, y, color) == Tenths(2 * CountNeighbors(b, x, y, color))

getEyePotential(b, x, y, color) ==
  IF CountNeighbors(b, x, y, color) >= 3 THEN Tenths(3) ELSE 0

\* The loops of getThreatScore (weight 5, the opponent's colour) and of
\* getDefenseScore (weight 8, the own colour) over the neighbours, in order.
RECURSIVE PressureLoop(_, _, _, _, _)
PressureLoop(b, neighbors, color, weight, score) ==
  IF Len(neighbors) = 0 THEN score
  ELSE LET n == Head(neighbors)
           size == Cardinality(getGroup(b, n.x, n.y).liberties)
       IN PressureLoop(b, Tail(neighbors), color, weight,
            IF b[n.x][n.y] = color /\ size <= 2
              THEN score + Tenths((3 - size) * weight)
              ELSE score)

getThreatScore(b, x, y, color, opponent) ==
  PressureLoop(b, getNeighbors(x, y), opponent, 5, 0)

getDefenseScore(b, x, y, color) ==
  PressureLoop(b, getNeighbors(x, y), color, 8, 0)

\* evaluateMove that leaves its trial stone on the engine's board.
evaluateMoveKeepsStone(e, x, y, color) ==
  LET opponent == IF color = BLACK THEN WHITE ELSE BLACK
      placed == SetCell(e.board, x, y, color)
      captured == getCapturedStones(placed, x, y, color)
  IN [e |-> [e EXCEPT !.board = placed],
      ret |-> Tenths(Len(captured) * 10)
                + getPositionScore(x, y)
                + getConnectionScore(placed, x, y, color)
                + getEyePotential(placed, x, y, color)
                + getThreatScore(placed, x, y, color, opponent)
                + getDefenseScore(placed, x, y, color)]

\* The score evaluateMove returns is in tenths of a point.
evaluateMove(e, x, y, color) ==
  LET opponent == IF color = BLACK THEN WHITE ELSE BLACK
      originalBoard == e.board
      placed == SetCell(e.board, x, y, color)
      captured == getCapturedStones(placed, x, y, color)
  IN [e |-> [e EXCEPT !.board = originalBoard],
      ret |-> Tenths(Len(captured) * 10)
                + getPositionScore(x, y)
                + getConnectionScore(placed, x, y, color)
                + getEyePotential(placed, x, y, color)
                + getThreatScore(placed, x, y, color, opponent)
                + getDefenseScore(placed, x, y, color)]

findCaptureMoves(e, validMoves, color) ==
  [e |-> e,
   ret |-> SelectSeq(validMoves, LAMBDA move :
             LET validation == isValidMove(e, move.x, move.y, color).ret
             IN validation.valid /\ Len(validation.captured) > 0)]

\* The for loop of filterSafeMoves: place the stone, look at its group, put
\* the board back.
RECURSIVE SafeLoop(_, _, _, _)
SafeLoop(e, moves, color, safeMoves) ==
  IF Len(moves) = 0 THEN [e |-> e, ret |-> safeMoves]
  ELSE LET move == Head(moves)
           originalBoard == e.board
           trial == [e EXCEPT !.board = SetCell(@, move.x, move.y, color)]
           group == getGroup(trial.board, move.x, move.y)
           isSafe == Cardinality(group.liberties) >= 2
           restored == [trial EXCEPT !.board = originalBoard]
       IN SafeLoop(restored, Tail(moves), color,
                   IF isSafe THEN Append(safeMoves, move) ELSE safeMoves)

filterSafeMoves(e, validMoves, color) == SafeLoop(e, validMoves, color, << >>)

\* getEasyMove that looks for safe moves before capturing ones.
getEasyMoveSafeFirst(e, validMoves, color) ==
  LET capture == findCaptureMoves(e, validMoves, color)
      safe == filterSafeMoves(capture.e, validMoves, color)
  IN IF Len(safe.ret) > 0
       THEN {[e |-> safe.e, ret |-> Obj(m)] : m \in Drawn(safe.ret)}
     ELSE IF Len(capture.ret) > 0
       THEN {[e |-> safe.e, ret |-> Obj(m)] : m \in Drawn(capture.ret)}
     ELSE {[e |-> safe.e, ret |-> Obj(m)] : m \in Drawn(validMoves)}

\* getEasyMove takes one draw, on the list it picks from.
getEasyMove(e, validMoves, color) ==
  LET capture == findCaptureMoves(e, validMoves, color)
      safe == filterSafeMoves(capture.e, validMoves, color)
  IN IF Len(capture.ret) > 0
       THEN {[e |-> capture.e, ret |-> Obj(m)] : m \in Drawn(capture.ret)}
     ELSE IF Len(safe.ret) > 0
       THEN {[e |-> safe.e, ret |-> Obj(m)] : m \in Drawn(safe.ret)}
     ELSE {[e |-> safe.e, ret |-> Obj(m)] : m \in Drawn(validMoves)}

\* The for loop of getMediumMove with score >= bestScore: a later move of
\* equal score replaces the best one.
RECURSIVE MediumLoopLastWins(_, _, _, _, _)
MediumLoopLastWins(e, moves, color, bestMove, bestScore) ==
  IF Len(moves) = 0 THEN [e |-> e, bestMove |-> bestMove]
  ELSE LET move == Head(moves)
           evaluation == evaluateMove(e, move.x, move.y, color)
           score == evaluation.ret
       IN IF bestMove = null \/ score >= bestScore
            THEN MediumLoopLastWins(evaluation.e, Tail(moves), color, Obj(move), score)
          ELSE MediumLoopLastWins(evaluation.e, Tail(moves), color, bestMove, bestScore)

\* The for loop of getMediumMove. bestScore starts at -Infinity, below every
\* score: it is read only once bestMove is set.
RECURSIVE MediumLoop(_, _, _, _, _)
MediumLoop(e, moves, color, bestMove, bestScore) ==
  IF Len(moves) = 0 THEN [e |-> e, bestMove |-> bestMove]
  ELSE LET move == Head(moves)
           evaluation == evaluateMove(e, move.x, move.y, color)
           score == evaluation.ret
       IN IF bestMove = null \/ score > bestScore
            THEN MediumLoop(evaluation.e, Tail(moves), color, Obj(move), score)
          ELSE MediumLoop(evaluation.e, Tail(moves), color, bestMove, bestScore)

getMediumMove(e, validMoves, color) ==
  LET loop == MediumLoop(e, validMoves, color, null, 0)
  IN [e |-> loop.e,
      ret |-> IF loop.bestMove # null THEN loop.bestMove ELSE Obj(validMoves[1])]

getSimValidMoves(b, color) ==
  SelectSeq(ScanOrder, LAMBDA m : b[m.x][m.y] = EMPTY)

simpleScore(b, aiColor) ==
  LET opponent == IF aiColor = BLACK THEN WHITE ELSE BLACK
  IN CountStones(b, aiColor) - CountStones(b, opponent)

maxMoves == 100

\* The condition and the body of the while loop of simulateGame, on the
\* locals s of the rollout: the locals after the body, for every draw.
SimRuns(s) == s.passCount < 2 /\ s.moveCount < maxMoves
SimStep(s) ==
  LET validMoves == getSimValidMoves(s.simBoard, s.currentColor)
      turned == [s EXCEPT
                   !.currentColor = IF @ = BLACK THEN WHITE ELSE BLACK,
                   !.moveCount = @ + 1]
  IN IF Len(validMoves) = 0
       THEN {[turned EXCEPT !.passCount = @ + 1]}
     ELSE {[turned EXCEPT
              !.passCount = 0,
              !.simBoard = SetCell(@, randomMove.x, randomMove.y, s.currentColor)] :
           randomMove \in Drawn(validMoves)}

\* The locals the while loop can end with when it can be at any of the
\* locals of S: the rollouts that run take one more iteration each.
RECURSIVE SimEnds(_)
SimEnds(S) ==
  LET running == {s \in S : SimRuns(s)}
  IN IF running = {} THEN S
     ELSE SimEnds((S \ running) \cup UNION {SimStep(s) : s \in running})

\* The while loop of simulateGame from the locals s.
SimLoop(s) == SimEnds({s})

\* The locals of simulateGame when its while loop starts.
SimStart(e, firstMove, aiColor) ==
  [simBoard |-> SetCell(e.board, firstMove.x, firstMove.y, aiColor),
   currentColor |-> IF aiColor = BLACK THEN WHITE ELSE BLACK,
   passCount |-> 0, moveCount |-> 0]

simulateGame(e, firstMove, aiColor) ==
  {[e |-> e, ret |-> simpleScore(end.simBoard, aiColor) > 0] :
   end \in SimLoop(SimStart(e, firstMove, aiColor))}

simulationCounts == [easy |-> 50, medium |-> 200, hard |-> 500]

\* The body of the inner for loop of getHardMove with its i++, on the locals
\* r of the loop: one rollout of the move.
RolloutStep(r, move, color) ==
  {[e |-> sim.e, wins |-> IF sim.ret THEN r.wins + 1 ELSE r.wins, i |-> r.i + 1] :
   sim \in simulateGame(r.e, move, color)}

\* The iterations lo .. hi - 1 of the inner for loop of getHardMove,
\* for (i = 0; i < simCount / n; i++) with n = validMoves.length, in order.
\* i < simCount / n exactly when i * n < simCount; an iteration the loop has
\* ended before leaves the locals as they are. The span is halved so that
\* the evaluation nests to the depth of its logarithm.
RECURSIVE RolloutSpan(_, _, _, _, _, _)
RolloutSpan(r, move, color, n, lo, hi) ==
  IF lo >= hi \/ lo * n >= simulationCounts.hard THEN {r}
  ELSE IF hi = lo + 1
    THEN IF r.i = lo THEN RolloutStep(r, move, color) ELSE {r}
  ELSE LET mid == (lo + hi) \div 2
       IN UNION {IF left.i * n >= simulationCounts.hard THEN {left}
                 ELSE RolloutSpan(left, move, color, n, mid, hi) :
                 left \in RolloutSpan(r, move, color, n, lo, mid)}

\* The inner for loop: it ends within simCount iterations, n being 1 or more.
RolloutLoop(e, move, color, n) ==
  RolloutSpan([e |-> e, wins |-> 0, i |-> 0], move, color, n,
              0, simulationCounts.hard)

\* What the body of the outer for loop does once the rollouts of the move
\* are made, and the rest of the loop.
RECURSIVE HardLoop(_, _, _, _, _, _)
HardRest(rollouts, moves, n, color, bestMove, bestWins) ==
  LET move == Head(moves)
      evaluation == evaluateMove(rollouts.e, move.x, move.y, color)
      totalScore == 100 * rollouts.wins + evaluation.ret
  IN IF totalScore > bestWins
       THEN HardLoop(evaluation.e, Tail(moves), n, color, Obj(move), totalScore)
     ELSE HardLoop(evaluation.e, Tail(moves), n, color, bestMove, bestWins)

\* The outer for loop of getHardMove. totalScore = wins + evalScore * 0.1 and
\* bestWins are counted in hundredths of a point (evalScore is in tenths).
HardLoop(e, moves, n, color, bestMove, bestWins) ==
  IF Len(moves) = 0 THEN {[e |-> e, bestMove |-> bestMove]}
  ELSE UNION {HardRest(rollouts, moves, n, color, bestMove, bestWins) :
              rollouts \in RolloutLoop(e, Head(moves), color, n)}

getHardMove(e, validMoves, color) ==
  {[e |-> loop.e,
    ret |-> IF loop.bestMove # null THEN loop.bestMove ELSE Obj(validMoves[1])] :
   loop \in HardLoop(e, validMoves, Len(validMoves), color, null, -100)}

\* getMove(color) of a selector of the given level.
getMove(e, level, color) ==
  LET listing == getAllValidMoves(e, color)
      validMoves == listing.ret
  IN IF Len(validMoves) = 0 THEN {[e |-> listing.e, ret |-> null]}
     ELSE IF level = "easy" THEN getEasyMove(listing.e, validMoves, color)
     ELSE IF level = "medium" THEN {getMediumMove(listing.e, validMoves, color)}
     ELSE IF level = "hard" THEN getHardMove(listing.e, validMoves, color)
     ELSE {getMediumMove(listing.e, validMoves, color)}

(***************************************************************************)
(* The state machine.                                                      *)
(***************************************************************************)
\* The live variables become the fields of engine e.
RulesBecome(e) ==
  /\ board' = e.board
  /\ currentPlayer' = e.currentPlayer
  /\ capturedBlack' = e.capturedBlack
  /\ capturedWhite' = e.capturedWhite
  /\ lastMove' = e.lastMove
  /\ koPoint' = e.koPoint
  /\ moveHistory' = e.moveHistory
  /\ boardHistory' = e.boardHistory

\* A method of the engine called on its own: the game around it stays as it is.
Becomes(e) == RulesBecome(e) /\ UNCHANGED gameVars

\* The engine holds the fields of e.
RulesAre(e) ==
  /\ board = e.board
  /\ currentPlayer = e.currentPlayer
  /\ capturedBlack = e.capturedBlack
  /\ capturedWhite = e.capturedWhite
  /\ lastMove = e.lastMove
  /\ koPoint = e.koPoint
  /\ moveHistory = e.moveHistory
  /\ boardHistory = e.boardHistory

\* The fields of a WeiqiGame after its constructor, with no save in storage.
Constructed ==
  /\ gameState = "menu"
  /\ gameMode = "pvp"
  /\ gameAiColor = WHITE
  /\ aiLevel = "medium"
  /\ playerColor = BLACK
  /\ ai = null
  /\ saves = << >>
  /\ timers = 0
  /\ gameResult = null
  /\ arrays = 0

\* new GoRules(Size)
Init ==
  LET e == init([board |-> << >>])
  IN RulesAre(e) /\ Constructed

Restart == Becomes(init(This))

\* isValidMove(x, y): the player defaults to this.currentPlayer.
CheckMove == \E c \in Asked :
  Becomes(isValidMove(This, c[1], c[2], currentPlayer).e)

\* makeMove(x, y, player) while the log is shorter than limit.
PlayMoveUpTo(limit) == \E c \in Offered, player \in Players :
  /\ Len(moveHistory) < limit
  /\ Becomes(makeMove(This, c[1], c[2], player).e)

\* pass() while the log is shorter than limit.
PassUpTo(limit) ==
  /\ Len(moveHistory) < limit
  /\ Becomes(pass(This).e)

Undo == Becomes(undoMove(This).e)

PlayMove == PlayMoveUpTo(MaxPlies)
Pass == PassUpTo(MaxPlies)
Next == Restart \/ CheckMove \/ PlayMove \/ Pass \/ Undo

Spec == Init /\ [][Next]_vars

\* The same engine explored one ply further.
PlayMoveDeep == PlayMoveUpTo(DeepPlies)
PassDeep == PassUpTo(DeepPlies)
NextDeep == Restart \/ CheckMove \/ PlayMoveDeep \/ PassDeep \/ Undo

SpecDeep == Init /\ [][NextDeep]_vars

\* The positions a saved game brings back: boards with at most MaxGaps empty
\* points, which no sequence of plies from the empty board reaches.
MaxGaps == 1
FullBoards == [Idx -> [Idx -> Players]]
Punch(b, H) ==
  [i \in Idx |-> [j \in Idx |-> IF <<i, j>> \in H THEN EMPTY ELSE b[i][j]]]
LoadableBoards ==
  {Punch(b, H) : b \in FullBoards,
                 H \in {G \in SUBSET (Idx \X Idx) : Cardinality(G) <= MaxGaps}}

\* A log of one pass with its two snapshots, as a saved game carries it.
SavedLog == pass(init([board |-> << >>])).e

\* The state objects handed to loadState: the fields of getBoardState, with
\* or without the two logs.
LoadableStates ==
  LET plain == [board : LoadableBoards, currentPlayer : Players,
                capturedBlack : {0, 2}, capturedWhite : {0},
                lastMove : {null},
                koPoint : {null, Obj(Pos(0, 0))}]
  IN plain \cup
     {[board |-> s.board, currentPlayer |-> s.currentPlayer,
       capturedBlack |-> s.capturedBlack, capturedWhite |-> 1,
       lastMove |-> Obj([x |-> 0, y |-> 1, player |-> BLACK]),
       koPoint |-> s.koPoint,
       moveHistory |-> SavedLog.moveHistory,
       boardHistory |-> SavedLog.boardHistory] : s \in plain}

\* new GoRules(Size) followed by loadState(state).
Loaded == \E state \in LoadableStates :
  LET e == loadState(init([board |-> << >>]), state).e
  IN RulesAre(e) /\ Constructed

Territory == Becomes(calculateTerritory(This).e)
Score == Becomes(calculateScore(This).e)
NextScore == Territory \/ Score

\* Scoring of a loaded position.
SpecScore == Loaded /\ [][NextScore]_vars

\* The positions the selector is asked about: the corner block of
\* Window x Window cells holds any stones or none, and the cells around it
\* are a black wall or are all empty.
Window == 2
WindowCells == {c \in Idx \X Idx : c[1] < Window /\ c[2] < Window}
BoardsAround(rest) ==
  {[i \in Idx |-> [j \in Idx |->
      IF <<i, j>> \in WindowCells THEN f[<<i, j>>] ELSE rest]] :
   f \in [WindowCells -> {EMPTY, BLACK, WHITE}]}
WalledBoards == BoardsAround(BLACK)
OpenBoards == BoardsAround(EMPTY)

\* The ko point saved with a board: none, or the corner when it is empty.
SavedKo(b) == IF b[0][0] = EMPTY THEN {null, Obj(Pos(0, 0))} ELSE {null}

\* new GoRules(Size) followed by loadState of one of the positions, saved
\* without logs, either colour to move.
LoadedFrom(boards) == \E b \in boards, player \in Players : \E ko \in SavedKo(b) :
  LET e == loadState(init([board |-> << >>]),
                     [board |-> b, currentPlayer |-> player,
                      capturedBlack |-> 0, capturedWhite |-> 0,
                      lastMove |-> null, koPoint |-> ko]).e
  IN RulesAre(e) /\ Constructed

\* What makeAIMove does with the selector's answer: a move is played with
\* makeMove(x, y), "no move" with pass().
PlayChoice(choice) ==
  IF choice.ret # null
    THEN makeMove(choice.e, choice.ret[1].x, choice.ret[1].y,
                  choice.e.currentPlayer)
  ELSE pass(choice.e)

\* Scoring of any position a saved record can hold: every cell empty, black
\* or white.
AnyBoards == [Idx -> [Idx -> {EMPTY, BLACK, WHITE}]]
Surveyed == LoadedFrom(AnyBoards)
SpecSurvey == Surveyed /\ [][NextScore]_vars

(***************************************************************************)
(* The game around the engine: WeiqiGame of js/main.js with the            *)
(* StorageManager of js/game/storage.js.  A handler is an operator over    *)
(* the game record ("this") that returns the game after the call.  The     *)
(* toast and the drawing are left out: nothing reads them back.            *)
(***************************************************************************)
GameState == [MENU |-> "menu", PLAYING |-> "playing",
              SAVE_DIALOG |-> "save_dialog", LOAD_DIALOG |-> "load_dialog",
              GAME_OVER |-> "game_over", AI_SELECT |-> "ai_select"]
GameMode == [PVP |-> "pvp", PVE |-> "pve"]
MAX_SAVES == 5

\* The game record made of the live variables.
Game == [rules |-> This, gameState |-> gameState, gameMode |-> gameMode,
         aiColor |-> gameAiColor, aiLevel |-> aiLevel,
         playerColor |-> playerColor, ai |-> ai, saves |-> saves,
         timers |-> timers, gameResult |-> gameResult, arrays |-> arrays]

\* The slots as they read once the array pair id holds the logs of engine e.
Seen(slots, id, e) ==
  [i \in 1 .. Len(slots) |->
     IF slots[i].arrays = id
       THEN [slots[i] EXCEPT !.moveHistory = e.moveHistory,
                             !.boardHistory = e.boardHistory]
     ELSE slots[i]]

\* The game after a call of the engine that left it as e: what the engine
\* pushed on or popped off its two arrays shows in the slots that hold them.
WithRules(a, e) == [a EXCEPT !.rules = e, !.saves = Seen(a.saves, a.arrays, e)]

\* The name of a pair of arrays made by new array literals ([] in init): one
\* that no slot holds.
NewArrays(slots) ==
  CHOOSE n \in 0 .. Len(slots) :
    /\ \A i \in 1 .. Len(slots) : slots[i].arrays # n
    /\ \A m \in 0 .. (n - 1) : \E i \in 1 .. Len(slots) : slots[i].arrays = m

\* setTimeout(() => this.makeAIMove(), delay)
setTimeout(a) == [a EXCEPT !.timers = @ + 1]

\* saveGame that makes room only once the list is longer than MAX_SAVES.
saveGameEvictsLate(slots, state, slotIndex) ==
  LET saveData == [gameMode |-> state.gameMode,
                   moveCount |-> Len(state.moveHistory),
                   currentPlayer |-> state.currentPlayer,
                   board |-> state.board,
                   capturedBlack |-> state.capturedBlack,
                   capturedWhite |-> state.capturedWhite,
                   moveHistory |-> state.moveHistory,
                   boardHistory |-> state.boardHistory,
                   lastMove |-> state.lastMove,
                   koPoint |-> state.koPoint,
                   aiColor |-> state.aiColor,
                   aiLevel |-> state.aiLevel,
                   arrays |-> state.arrays]
  IN [saves |-> IF slotIndex >= 0 /\ slotIndex < Len(slots)
                  THEN [slots EXCEPT ![slotIndex + 1] = saveData]
                ELSE Append(IF Len(slots) > MAX_SAVES THEN Tail(slots)
                            ELSE slots, saveData),
      ret |-> [success |-> TRUE]]

\* StorageManager.saveGame(gameState, slotIndex).  The id and the timestamp
\* of a record, which only label the slot in the dialog, are left out.
saveGame(slots, state, slotIndex) ==
  LET saveData == [gameMode |-> state.gameMode,
                   moveCount |-> Len(state.moveHistory),
                   currentPlayer |-> state.currentPlayer,
                   board |-> state.board,
                   capturedBlack |-> state.capturedBlack,
                   capturedWhite |-> state.capturedWhite,
                   moveHistory |-> state.moveHistory,
                   boardHistory |-> state.boardHistory,
                   lastMove |-> state.lastMove,
                   koPoint |-> state.koPoint,
                   aiColor |-> state.aiColor,
                   aiLevel |-> state.aiLevel,
                   arrays |-> state.arrays]
  IN [saves |-> IF slotIndex >= 0 /\ slotIndex < Len(slots)
                  THEN [slots EXCEPT ![slotIndex + 1] = saveData]
                ELSE Append(IF Len(slots) >= MAX_SAVES THEN Tail(slots)
                            ELSE slots, saveData),
      ret |-> [success |-> TRUE]]

\* StorageManager.loadGame(slotIndex)
loadGame(slots, slotIndex) ==
  IF slotIndex < 0 \/ slotIndex >= Len(slots)
    THEN [success |-> FALSE]
  ELSE [success |-> TRUE, data |-> slots[slotIndex + 1]]

\* StorageManager.deleteSave(slotIndex): splice(slotIndex, 1)
deleteSave(slots, slotIndex) ==
  IF slotIndex < 0 \/ slotIndex >= Len(slots)
    THEN [saves |-> slots, ret |-> [success |-> FALSE]]
  ELSE [saves |-> SubSeq(slots, 1, slotIndex)
                    \o SubSeq(slots, slotIndex + 2, Len(slots)),
        ret |-> [success |-> TRUE]]

\* StorageManager.clearAllSaves()
clearAllSaves(slots) == [saves |-> << >>, ret |-> [success |-> TRUE]]

\* getFullGameState(): the fields of getBoardState, the two arrays of the
\* engine themselves, and the opponent configuration.
getFullGameState(a) ==
  LET state == getBoardState(a.rules).ret
  IN [board |-> state.board, currentPlayer |-> state.currentPlayer,
      capturedBlack |-> state.capturedBlack,
      capturedWhite |-> state.capturedWhite,
      lastMove |-> state.lastMove, koPoint |-> state.koPoint,
      moveCount |-> state.moveCount,
      moveHistory |-> a.rules.moveHistory,
      boardHistory |-> a.rules.boardHistory,
      arrays |-> a.arrays,
      gameMode |-> a.gameMode, aiColor |-> a.aiColor,
      aiLevel |-> a.aiLevel, playerColor |-> a.playerColor]

\* data.field || fallback: what a record holds under these fields (a mode, a
\* level, a colour 1 or 2) is never falsy, so the fallback is taken when the
\* record has no such field.
OrElse(data, field, fallback) ==
  IF field \in DOMAIN data THEN data[field] ELSE fallback

\* restoreGameState(data)
restoreGameState(a, data) ==
  LET mode == OrElse(data, "gameMode", GameMode.PVP)
      level == OrElse(data, "aiLevel", "medium")
  IN [a EXCEPT !.gameMode = mode,
               !.aiColor = OrElse(data, "aiColor", WHITE),
               !.aiLevel = level,
               !.playerColor = OrElse(data, "playerColor", BLACK),
               !.rules = loadState(a.rules, data).e,
               !.arrays = data.arrays,
               !.ai = IF mode = GameMode.PVE THEN Obj(level) ELSE a.ai]

\* startGame(mode)
startGame(a, mode) ==
  [a EXCEPT !.gameMode = mode,
            !.gameState = GameState.PLAYING,
            !.rules = init(a.rules),
            !.arrays = NewArrays(a.saves),
            !.ai = IF mode = GameMode.PVE THEN Obj(a.aiLevel) ELSE a.ai]

\* endGame()
endGame(a) ==
  [a EXCEPT !.gameResult = Obj(calculateScore(a.rules).ret),
            !.gameState = GameState.GAME_OVER]

\* The rest of handleBoardClick once makeMove has answered.
AfterClick(a, result) ==
  IF result.ret.success
    THEN IF a.gameMode = GameMode.PVE /\ result.e.currentPlayer = a.aiColor
           THEN setTimeout(WithRules(a, result.e))
         ELSE WithRules(a, result.e)
  ELSE WithRules(a, result.e)

\* handleBoardClick(x, y)
handleBoardClick(a, x, y) ==
  IF a.gameMode = GameMode.PVE /\ a.rules.currentPlayer # a.playerColor
    THEN a
  ELSE AfterClick(a, makeMove(a.rules, x, y, a.rules.currentPlayer))

\* makeAIMove(): the selector answers getMove(this.aiColor) at its level; the
\* games the call can leave.
makeAIMove(a) ==
  IF a.gameState # GameState.PLAYING THEN {a}
  ELSE IF a.rules.currentPlayer # a.aiColor THEN {a}
  ELSE {WithRules(a, PlayChoice(choice).e) :
        choice \in getMove(a.rules, a.ai[1], a.aiColor)}

\* GoAI.setLevel(level) of the selector the game holds.
setLevel(a, level) == [a EXCEPT !.ai = Obj(level)]

\* undoMove() of the game: the undo button.
undoButton(a) ==
  IF a.gameMode = GameMode.PVE
    THEN WithRules(a, undoMove(undoMove(a.rules).e).e)
  ELSE WithRules(a, undoMove(a.rules).e)

\* The rest of pass() of the game once the engine's pass has answered.
AfterPass(a, result) ==
  IF result.ret.gameEnd THEN endGame(WithRules(a, result.e))
  ELSE IF a.gameMode = GameMode.PVE THEN setTimeout(WithRules(a, result.e))
  ELSE WithRules(a, result.e)

\* pass() of the game: the pass button.
passButton(a) == AfterPass(a, pass(a.rules))

\* resign()
resign(a) ==
  [a EXCEPT !.gameState = GameState.GAME_OVER,
            !.gameResult = Obj([winner |-> IF a.rules.currentPlayer = BLACK
                                             THEN WHITE ELSE BLACK,
                                black |-> 0, white |-> 0, margin |-> 0,
                                resigned |-> TRUE])]

\* saveGame(slotIndex) of the game
saveSlot(a, slotIndex) ==
  [a EXCEPT !.saves = saveGame(a.saves, getFullGameState(a), slotIndex).saves,
            !.gameState = GameState.PLAYING]

\* loadGame(slotIndex) of the game going to the board also when the load failed.
AfterLoadAlwaysPlays(a, result) ==
  IF result.success
    THEN [restoreGameState(a, result.data) EXCEPT
            !.gameState = GameState.PLAYING]
  ELSE [a EXCEPT !.gameState = GameState.PLAYING]

\* The rest of loadGame(slotIndex) of the game once the storage has answered.
AfterLoad(a, result) ==
  IF result.success
    THEN [restoreGameState(a, result.data) EXCEPT
            !.gameState = GameState.PLAYING]
  ELSE a

\* loadGame(slotIndex) of the game
loadSlot(a, slotIndex) == AfterLoad(a, loadGame(a.saves, slotIndex))

\* handleDialogClick on the close button
closeDialog(a) ==
  [a EXCEPT !.gameState = IF Len(a.rules.moveHistory) > 0
                            THEN GameState.PLAYING ELSE GameState.MENU]

\* handleDialogClick on the button of a slot
slotButton(a, slotIndex) ==
  IF a.gameState = GameState.SAVE_DIALOG THEN saveSlot(a, slotIndex)
  ELSE loadSlot(a, slotIndex)

\* handleGameOverClick on "new_game"
newGame(a) ==
  IF a.gameMode = GameMode.PVE /\ a.playerColor = WHITE
    THEN setTimeout(startGame(a, a.gameMode))
  ELSE startGame(a, a.gameMode)

\* handleAISelectClick on "play_black" and "play_white"
playBlack(a) ==
  startGame([a EXCEPT !.playerColor = BLACK, !.aiColor = WHITE], GameMode.PVE)
playWhite(a) ==
  setTimeout(startGame([a EXCEPT !.playerColor = WHITE, !.aiColor = BLACK],
                       GameMode.PVE))

\* The state machine of the game: one action per button, one for a click on
\* the board and one for a makeAIMove callback coming due.
GameBecomes(a) ==
  /\ RulesBecome(a.rules)
  /\ gameState' = a.gameState
  /\ gameMode' = a.gameMode
  /\ gameAiColor' = a.aiColor
  /\ aiLevel' = a.aiLevel
  /\ playerColor' = a.playerColor
  /\ ai' = a.ai
  /\ saves' = a.saves
  /\ timers' = a.timers
  /\ gameResult' = a.gameResult
  /\ arrays' = a.arrays

\* A game of an earlier session found in storage.  Black, the human, has
\* built a wall with two eyes while pressing the pass button in White's turns
\* before the selector's callback came due; White, the selector of the easy
\* level, then played into its last-but-one liberty.  White has no legal
\* placement left and Black is to move.
StoredPlies == <<<<0, 2>>, null, <<1, 0>>, null, <<1, 1>>, null, <<1, 2>>, null,
                 <<2, 1>>, <<0, 1>>>>
RECURSIVE Replay(_, _)
Replay(e, plies) ==
  IF Len(plies) = 0 THEN e
  ELSE Replay(IF Head(plies) = null THEN pass(e).e
              ELSE makeMove(e, Head(plies)[1], Head(plies)[2],
                            e.currentPlayer).e,
              Tail(plies))
StoredRules == Replay(init([board |-> << >>]), StoredPlies)
\* The record saveGame made of it, as JSON.parse gives it back: with arrays
\* of its own.
StoredGame ==
  saveGame(<< >>,
           [getFullGameState([rules |-> StoredRules, arrays |-> 1,
                              gameMode |-> GameMode.PVE, aiColor |-> WHITE,
                              aiLevel |-> "easy", playerColor |-> BLACK])
              EXCEPT !.arrays = 1],
           0).saves[1]

\* new WeiqiGame(): the slots are read from storage, which holds one of the
\* given lists of records.
OpenedWith(stored) ==
  /\ RulesAre(init([board |-> << >>]))
  /\ gameState = GameState.MENU
  /\ gameMode = GameMode.PVP
  /\ gameAiColor = WHITE
  /\ aiLevel = "medium"
  /\ playerColor = BLACK
  /\ ai = null
  /\ saves \in stored
  /\ timers = 0
  /\ gameResult = null
  /\ arrays = 0

\* The bounds of the game: a log grows only up to FlowPlies entries, or up to
\* FlowPlies entries past the stored game's; at most MaxTimers callbacks are
\* pending; the board is clicked on the cells at most ClickReach steps from
\* the corner (0,0); the slots 0 .. MaxSlots - 1 of the dialog are clicked;
\* the levels chosen are the two without rollouts.
FlowPlies == 2
MaxTimers == 2
ClickReach == 0
MaxSlots == 1
Clicked == {c \in Idx \X Idx : c[1] + c[2] <= ClickReach}
Slots == 0 .. (MaxSlots - 1)
FlowLevels == {"easy", "medium"}
LogFits(n) ==
  \/ n <= Len(moveHistory)
  \/ n <= FlowPlies
  \/ n >= Len(StoredPlies) /\ n <= Len(StoredPlies) + FlowPlies
Does(a) ==
  /\ LogFits(Len(a.rules.moveHistory))
  /\ a.timers <= MaxTimers
  /\ GameBecomes(a)

On(screen) == gameState = screen
InDialog == On(GameState.SAVE_DIALOG) \/ On(GameState.LOAD_DIALOG)

\* handleMenuClick
ClickPvp == On(GameState.MENU) /\ Does(startGame(Game, GameMode.PVP))
ClickPve ==
  On(GameState.MENU) /\ Does([Game EXCEPT !.gameState = GameState.AI_SELECT])
ClickContinue ==
  On(GameState.MENU) /\ Does([Game EXCEPT !.gameState = GameState.LOAD_DIALOG])
\* handleAISelectClick
ClickLevel == On(GameState.AI_SELECT) /\ \E level \in FlowLevels :
  Does([Game EXCEPT !.aiLevel = level])
ClickPlayBlack == On(GameState.AI_SELECT) /\ Does(playBlack(Game))
ClickPlayWhite == On(GameState.AI_SELECT) /\ Does(playWhite(Game))
ClickBack ==
  On(GameState.AI_SELECT) /\ Does([Game EXCEPT !.gameState = GameState.MENU])
\* handleGameClick: handleGameButton or handleBoardClick
ClickUndo == On(GameState.PLAYING) /\ Does(undoButton(Game))
ClickPass == On(GameState.PLAYING) /\ Does(passButton(Game))
ClickSave ==
  On(GameState.PLAYING) /\ Does([Game EXCEPT !.gameState = GameState.SAVE_DIALOG])
ClickResign == On(GameState.PLAYING) /\ Does(resign(Game))
ClickMenu ==
  On(GameState.PLAYING) /\ Does([Game EXCEPT !.gameState = GameState.MENU])
ClickBoard == On(GameState.PLAYING) /\ \E c \in Clicked :
  Does(handleBoardClick(Game, c[1], c[2]))
\* handleDialogClick
ClickClose == InDialog /\ Does(closeDialog(Game))
ClickSaveSlot == On(GameState.SAVE_DIALOG) /\ \E slotIndex \in Slots :
  Does(slotButton(Game, slotIndex))
ClickLoadSlot == On(GameState.LOAD_DIALOG) /\ \E slotIndex \in Slots :
  Does(slotButton(Game, slotIndex))
\* handleGameOverClick
ClickNewGame == On(GameState.GAME_OVER) /\ Does(newGame(Game))
ClickBackMenu ==
  On(GameState.GAME_OVER) /\ Does([Game EXCEPT !.gameState = GameState.MENU])
\* A callback handed to setTimeout comes due.
TimerFires == timers > 0 /\
  \E a \in makeAIMove([Game EXCEPT !.timers = @ - 1]) : Does(a)

\* The record saveGame made of a game against the selector in one of the
\* positions, the selector of the given level having the colour to move, as
\* JSON.parse gives it back: with arrays of its own.
SavedPosition(b, player, ko, level) ==
  saveGame(<< >>,
           [board |-> b, currentPlayer |-> player,
            capturedBlack |-> 0, capturedWhite |-> 0,
            lastMove |-> null, koPoint |-> ko,
            moveHistory |-> << >>, boardHistory |-> << >>, arrays |-> 1,
            gameMode |-> GameMode.PVE, aiColor |-> player, aiLevel |-> level],
           0).saves[1]

\* new WeiqiGame(), the storage holding the given records.
Fresh(stored) ==
  [rules |-> init([board |-> << >>]), gameState |-> GameState.MENU,
   gameMode |-> GameMode.PVP, aiColor |-> WHITE, aiLevel |-> "medium",
   playerColor |-> BLACK, ai |-> null, saves |-> stored, timers |-> 0,
   gameResult |-> null, arrays |-> 0]

\* loadGame(0) of a new game whose storage holds such a record in its one
\* slot: the game is on the board screen, with a selector of the record's
\* level whose turn it is.
Engaged(boards, levels) ==
  \E b \in boards, player \in Players, level \in levels : \E ko \in SavedKo(b) :
    LET a == loadSlot(Fresh(<<SavedPosition(b, player, ko, level)>>), 0)
    IN /\ RulesAre(a.rules)
       /\ gameState = a.gameState
       /\ gameMode = a.gameMode
       /\ gameAiColor = a.aiColor
       /\ aiLevel = a.aiLevel
       /\ playerColor = a.playerColor
       /\ ai = a.ai
       /\ saves = a.saves
       /\ timers = a.timers
       /\ gameResult = a.gameResult
       /\ arrays = a.arrays

\* makeAIMove(), whatever the random source gives.
AIMove == \E a \in makeAIMove(Game) : GameBecomes(a)
\* setLevel(level) of the game's selector.
SetLevelTo(levels) == ai # null /\ \E level \in levels :
  GameBecomes(setLevel(Game, level))

\* The selector of any level on the walled positions.
Walled == Engaged(WalledBoards, Levels)
SetLevel == SetLevelTo(Levels)
NextAI == AIMove \/ SetLevel
SpecAI == Walled /\ [][NextAI]_vars

\* The selectors without rollouts on the walled and the open positions.
QuickLevels == {"easy", "medium"}
WalledOrOpen == Engaged(WalledBoards \cup OpenBoards, QuickLevels)
SetQuickLevel == SetLevelTo(QuickLevels)
NextQuick == AIMove \/ SetQuickLevel
SpecQuick == WalledOrOpen /\ [][NextQuick]_vars

\* Two humans at one device, nothing in storage: every button of a game of
\* two players.
OpenedEmpty == OpenedWith({<< >>})
NextArchive ==
  \/ ClickPvp \/ ClickContinue
  \/ ClickUndo \/ ClickPass \/ ClickSave \/ ClickResign \/ ClickMenu
  \/ ClickBoard
  \/ ClickClose \/ ClickSaveSlot \/ ClickLoadSlot
  \/ ClickNewGame \/ ClickBackMenu

SpecArchive == OpenedEmpty /\ [][NextArchive]_vars

\* A human against the selector, storage holding no game or the game of the
\* earlier session: the opponent is configured or a game is loaded, and the
\* game is played without saving it and without going back to the menu.
Opened == OpenedWith({<< >>, <<StoredGame>>})
NextMatch ==
  \/ ClickPve \/ ClickContinue
  \/ ClickLevel \/ ClickPlayBlack \/ ClickPlayWhite \/ ClickBack
  \/ ClickUndo \/ ClickPass \/ ClickSave
  \/ ClickBoard
  \/ ClickClose \/ ClickLoadSlot
  \/ TimerFires

SpecMatch == Opened /\ [][NextMatch]_vars
\* The event loop runs every callback that is due: while one is pending, the
\* count of pending callbacks eventually goes down, which only TimerFires
\* does.
Countdown == timers > 0 /\ timers' = timers - 1
SpecMatchFair == SpecMatch /\ WF_timers(Countdown)

\* One device through a session with nothing in storage: games of two humans
\* and games against the selector follow one another through the menu and
\* the game-over screen, the callbacks that were scheduled coming due at any
\* moment.
NextSession ==
  \/ ClickPvp \/ ClickPve
  \/ ClickPlayBlack \/ ClickPlayWhite \/ ClickBack
  \/ ClickUndo \/ ClickPass \/ ClickResign \/ ClickMenu
  \/ ClickBoard
  \/ ClickNewGame \/ ClickBackMenu
  \/ TimerFires

SpecSession == OpenedEmpty /\ [][NextSession]_vars

\* The storage manager on its own, its list empty at first: games that
\* differ in the level chosen for the selector are saved at every index from
\* -1 (the default of saveGame) to MAX_SAVES, records are deleted at these
\* indices, and the list is cleared.
SlotIndices == -1 .. MAX_SAVES
Levelled(level) == getFullGameState([Game EXCEPT !.aiLevel = level])
StoreSave == \E slotIndex \in SlotIndices, level \in Levels :
  GameBecomes([Game EXCEPT
    !.saves = saveGame(saves, Levelled(level), slotIndex).saves])
StoreDelete == \E slotIndex \in SlotIndices :
  GameBecomes([Game EXCEPT !.saves = deleteSave(saves, slotIndex).saves])
StoreClear == GameBecomes([Game EXCEPT !.saves = clearAllSaves(saves).saves])
NextSlots == StoreSave \/ StoreDelete \/ StoreClear

SpecSlots == OpenedEmpty /\ [][NextSlots]_vars

(***************************************************************************)
(* The rules of Go stated without the engine's search: chains as a closure *)
(* over sets of cells, used to state what the engine must decide.          *)
(***************************************************************************)
Cells == Idx \X Idx
OffBoard == {<<-1, 0>>, <<0, Size>>, <<Size, -1>>}
\* The coordinates the properties probe: every cell and the points off the board.
Probes == Cells \cup OffBoard

At(b, c) == b[c[1]][c[2]]
Adjacent(a, c) ==
  \/ a[1] = c[1] /\ (a[2] = c[2] + 1 \/ c[2] = a[2] + 1)
  \/ a[2] = c[2] /\ (a[1] = c[1] + 1 \/ c[1] = a[1] + 1)

RECURSIVE Closure(_, _, _)
Closure(b, color, S) ==
  LET T == S \cup {n \in Cells : At(b, n) = color /\ \E m \in S : Adjacent(m, n)}
  IN IF T = S THEN S ELSE Closure(b, color, T)

\* The chain of the stone at c: the cells of its colour connected to it.
ChainOf(b, c) == IF At(b, c) = EMPTY THEN {} ELSE Closure(b, At(b, c), {c})
\* The liberties of a set of cells: the empty cells next to one of them.
LibertiesOf(b, G) == {n \in Cells : At(b, n) = EMPTY /\ \E m \in G : Adjacent(m, n)}
\* The board with a stone of player at c, nothing removed.
With(b, c, player) == SetCell(b, c[1], c[2], player)
\* The opposing stones left without liberty by a stone of player at c.
TakenBy(b, c, player) ==
  LET b1 == With(b, c, player)
  IN UNION {ChainOf(b1, n) : n \in {m \in Cells :
        /\ Adjacent(m, c)
        /\ At(b1, m) = getOpponent(player)
        /\ LibertiesOf(b1, ChainOf(b1, m)) = {}}}
\* The chain of a stone of player at c has no liberty before anything is removed
\* (which needs every neighbour of c to be occupied).
Smothered(b, c, player) ==
  /\ \A n \in Cells : Adjacent(n, c) => At(b, n) # EMPTY
  /\ LibertiesOf(With(b, c, player), ChainOf(With(b, c, player), c)) = {}
IsKo(c) == koPoint # null /\ koPoint[1] = Pos(c[1], c[2])
Rejected(reason) == [valid |-> FALSE, reason |-> reason]

(***************************************************************************)
(* Claims.                                                                 *)
(***************************************************************************)
\* C1: isValidMove never changes the engine: for every probed coordinate, on
\* or off the board, and either player, the engine after the call (board,
\* turn, tallies, ko point, last move, log, snapshots) equals the engine before.
C1_IsValidMoveChangesNothing ==
  \A c \in Probes, player \in Players :
    isValidMove(This, c[1], c[2], player).e = This

\* A position where one probe is rejected as suicide and another one captures.
C1_Witness ==
  /\ \E c \in Cells, player \in Players :
       isValidMove(This, c[1], c[2], player).ret = Rejected(ReasonSuicide)
  /\ \E c \in Cells, player \in Players :
       LET r == isValidMove(This, c[1], c[2], player).ret
       IN r.valid /\ Len(r.captured) > 0

\* C2: on every empty cell where the stone captures nothing and its chain (of
\* any size) has no liberty, isValidMove rejects with the suicide reason and
\* makeMove fails and does not place the stone (the engine is unchanged).
C2_SuicideRejected ==
  \A c \in Cells, player \in Players :
    (At(board, c) = EMPTY /\ Smothered(board, c, player)
       /\ TakenBy(board, c, player) = {})
    => /\ isValidMove(This, c[1], c[2], player).ret = Rejected(ReasonSuicide)
       /\ makeMove(This, c[1], c[2], player) =
            [e |-> This, ret |-> [success |-> FALSE, reason |-> ReasonSuicide]]

\* A position with a suicide of a chain of two or more stones.
C2_Witness ==
  \E c \in Cells, player \in Players :
    /\ At(board, c) = EMPTY /\ ~IsKo(c)
    /\ Smothered(board, c, player)
    /\ TakenBy(board, c, player) = {}
    /\ Cardinality(ChainOf(With(board, c, player), c)) >= 2

\* C3: on every empty cell that is not the ko point, a stone that leaves an
\* adjacent opposing chain without liberty is valid, also when its own chain
\* has no liberty before the captured stones are removed.
C3_CaptureAccepted ==
  \A c \in Cells, player \in Players :
    (At(board, c) = EMPTY /\ ~IsKo(c) /\ TakenBy(board, c, player) # {})
    => isValidMove(This, c[1], c[2], player).ret.valid

\* A position with a capturing stone whose own chain has no liberty.
C3_Witness ==
  \E c \in Cells, player \in Players :
    /\ At(board, c) = EMPTY /\ ~IsKo(c)
    /\ TakenBy(board, c, player) # {}
    /\ Smothered(board, c, player)

\* C4: while the ko point a makeMove reported stands (no ply since), a move
\* into it by either player is rejected with the ko reason by isValidMove and
\* by makeMove, which changes nothing, also when the move would capture.
C4_KoRejected ==
  koPoint # null =>
    \A player \in Players :
      /\ isValidMove(This, koPoint[1].x, koPoint[1].y, player).ret = Rejected(ReasonKo)
      /\ makeMove(This, koPoint[1].x, koPoint[1].y, player) =
           [e |-> This, ret |-> [success |-> FALSE, reason |-> ReasonKo]]

\* A ko point set by the last move, where the recapture would take a stone.
C4_Witness ==
  /\ koPoint # null
  /\ lastMove # null
  /\ Len(moveHistory) > 0
  /\ moveHistory[Len(moveHistory)] =
       [x |-> lastMove[1].x, y |-> lastMove[1].y,
        player |-> lastMove[1].player, captured |-> 1]
  /\ TakenBy(board, <<koPoint[1].x, koPoint[1].y>>, currentPlayer) # {}

\* The ko point of the snapshot before the latest one, when the latest ply
\* followed a position with a ko point.
AfterKoPly ==
  /\ Len(boardHistory) >= 2
  /\ boardHistory[Len(boardHistory) - 1].koPoint # null
PrevKo == boardHistory[Len(boardHistory) - 1].koPoint[1]
LastEntry == moveHistory[Len(moveHistory)]

\* C5 as stated: one ply (a move elsewhere or a pass) after the ko point p was
\* set, p is no longer the ko point and, if p is still empty, a move at p is
\* valid for either player.
C5_KoPointLegalAgain ==
  AfterKoPly =>
    /\ koPoint # Obj(PrevKo)
    /\ At(board, <<PrevKo.x, PrevKo.y>>) = EMPTY =>
         \A player \in Players :
           isValidMove(This, PrevKo.x, PrevKo.y, player).ret.valid

\* C5 amended: one ply after the ko point p was set, p is no longer the ko
\* point and a move at p is no longer rejected as a ko violation: if p is
\* still empty the move is valid unless it is a suicide (it captures nothing
\* and its chain has no liberty), which is rejected with the suicide reason.
C5_KoLastsOnePly ==
  AfterKoPly =>
    /\ koPoint # Obj(PrevKo)
    /\ At(board, <<PrevKo.x, PrevKo.y>>) = EMPTY =>
         \A player \in Players :
           LET p == <<PrevKo.x, PrevKo.y>>
               suicide == Smothered(board, p, player) /\ TakenBy(board, p, player) = {}
               r == isValidMove(This, PrevKo.x, PrevKo.y, player).ret
           IN IF suicide THEN r = Rejected(ReasonSuicide) ELSE r.valid

\* A pass has followed the ko, and the recapture that was barred is now valid
\* for the player who passed.
C5_Witness ==
  /\ AfterKoPly
  /\ IsPassEntry(LastEntry)
  /\ koPoint = null
  /\ LET r == isValidMove(This, PrevKo.x, PrevKo.y, LastEntry.player).ret
     IN r.valid /\ Len(r.captured) = 1

\* The stones of a colour on a board.
StonesOf(b, color) == {c \in Cells : At(b, c) = color}

\* C6: for every successful makeMove, the ko point after it is non-null if and
\* only if the move removed exactly one stone and the placed stone is then a
\* chain of one stone with exactly one liberty (the ko point is that liberty);
\* the koPoint makeMove returns is the engine's ko point.
C6_KoSetIffOneForOne ==
  \A m \in Offered, player \in Players :
    LET r == makeMove(This, m[1], m[2], player)
        after == r.e.board
        removed == Cardinality(StonesOf(board, getOpponent(player)))
                     - Cardinality(StonesOf(after, getOpponent(player)))
        libs == LibertiesOf(after, {m})
        oneForOne == removed = 1 /\ ChainOf(after, m) = {m} /\ Cardinality(libs) = 1
    IN r.ret.success =>
         /\ r.ret.koPoint = r.e.koPoint
         /\ r.e.koPoint # null <=> oneForOne
         /\ oneForOne => \A l \in libs : r.e.koPoint = Obj(Pos(l[1], l[2]))

\* A move has just taken one stone and left no ko point: the capturing stone
\* has more than one liberty or is part of a larger chain.
C6_Witness ==
  /\ Len(moveHistory) > 0
  /\ ~IsPassEntry(LastEntry)
  /\ LastEntry.captured = 1
  /\ lastMove = Obj([x |-> LastEntry.x, y |-> LastEntry.y, player |-> LastEntry.player])
  /\ koPoint = null

\* C7: undoMove is the inverse of the ply before it: after any successful
\* makeMove, and after a pass, undoMove succeeds and gives back the engine as
\* it was (board, turn, tallies, ko point, last move, move log, snapshots).
C7_UndoInvertsPly ==
  /\ \A m \in Offered, player \in Players :
       LET r == makeMove(This, m[1], m[2], player)
       IN r.ret.success =>
            undoMove(r.e) = [e |-> This, ret |-> [success |-> TRUE]]
  /\ undoMove(pass(This).e) = [e |-> This, ret |-> [success |-> TRUE]]

\* A position with a ko point, a last move and captured stones, from which a
\* further move is possible: undoing that move must give all of them back.
C7_Witness ==
  /\ koPoint # null /\ lastMove # null
  /\ capturedBlack + capturedWhite > 0
  /\ \E m \in Offered, player \in Players :
       makeMove(This, m[1], m[2], player).ret.success

\* C8: the snapshot history holds one entry more than the move log.
C8_SnapshotCount == Len(boardHistory) = Len(moveHistory) + 1

\* A log holding a pass and a placement.
C8_Witness ==
  /\ Len(moveHistory) >= 2
  /\ \E i \in 1 .. Len(moveHistory) : IsPassEntry(moveHistory[i])
  /\ \E i \in 1 .. Len(moveHistory) : ~IsPassEntry(moveHistory[i])

\* C9: with only the initial snapshot in the history, undoMove fails with a
\* reason and changes nothing, and a second call does the same.
C9_UndoNothing ==
  Len(boardHistory) <= 1 =>
    LET r == undoMove(This)
    IN /\ r = [e |-> This, ret |-> [success |-> FALSE, reason |-> ReasonNoUndo]]
       /\ undoMove(r.e) = r

\* The engine holds only the initial snapshot and undoMove fails.
C9_Witness ==
  /\ Len(boardHistory) = 1
  /\ Len(moveHistory) = 0
  /\ ~undoMove(This).ret.success

\* C10: when isValidMove rejects (x, y, player), makeMove fails with the same
\* reason, one of the four, and changes nothing in the engine.
C10_RejectedMoveChangesNothing ==
  \A c \in Probes, player \in Players :
    LET v == isValidMove(This, c[1], c[2], player).ret
    IN ~v.valid =>
         /\ v.reason \in {ReasonOutOfRange, ReasonOccupied, ReasonKo, ReasonSuicide}
         /\ makeMove(This, c[1], c[2], player) =
              [e |-> This, ret |-> [success |-> FALSE, reason |-> v.reason]]

\* A position after some plies where makeMove rejects a suicide.
C10_Witness ==
  /\ Len(moveHistory) >= 1
  /\ \E c \in Cells, player \in Players :
       makeMove(This, c[1], c[2], player).ret =
         [success |-> FALSE, reason |-> ReasonSuicide]

\* The captured-stone tally of a colour in engine e.
TallyOf(e, color) == IF color = BLACK THEN e.capturedBlack ELSE e.capturedWhite

\* C11: on every successful makeMove by a player, the tally of the opponent's
\* colour grows by exactly the number of opposing stones that left the board,
\* makeMove returns that number as its captured count, and the player's own
\* tally is unchanged, also when the placed stone touches the captured group
\* through two or more of its neighbours.
C11_TallyMatchesRemoved ==
  \A m \in Offered, player \in Players :
    LET r == makeMove(This, m[1], m[2], player)
        opp == getOpponent(player)
        removed == Cardinality(StonesOf(board, opp))
                     - Cardinality(StonesOf(r.e.board, opp))
    IN r.ret.success =>
         /\ TallyOf(r.e, opp) - TallyOf(This, opp) = removed
         /\ r.ret.captured = removed
         /\ TallyOf(r.e, player) = TallyOf(This, player)

\* C12: the captured collection of a placement on an empty cell, as computed
\* by getCapturedStones on the board with the stone and as returned by a valid
\* isValidMove, holds each captured stone exactly once: its length is the
\* number of distinct stones the move takes.
C12_CapturedOnce ==
  \A c \in Cells, player \in Players :
    At(board, c) = EMPTY =>
      LET captured == getCapturedStones(With(board, c, player), c[1], c[2], player)
          v == isValidMove(This, c[1], c[2], player).ret
      IN /\ Len(captured) = Cardinality(Range(captured))
         /\ Len(captured) = Cardinality(TakenBy(board, c, player))
         /\ v.valid => v.captured = captured

\* A log record written by a pass: it carries no board coordinate.
NoStone(m) == m.x = -1 /\ m.y = -1

\* C13: pass succeeds and reports gameEnd exactly when its own record follows
\* another pass record (the log then has two or more entries and the last two
\* are passes). A pass on an empty log and a pass after a placement report
\* FALSE; the second of two passes from an empty log reports TRUE.
C13_PassGameEnd ==
  LET r == pass(This)
      n == Len(moveHistory)
      log == r.e.moveHistory
  IN /\ r.ret.success
     /\ Len(log) = n + 1 /\ NoStone(log[n + 1])
     /\ r.ret.gameEnd <=> (n >= 1 /\ NoStone(moveHistory[n]))
     /\ n = 0 => (~r.ret.gameEnd /\ pass(r.e).ret.gameEnd)

\* The log holds a pass, a placement and a pass, in this order, and the pass
\* to come does end the game.
C13_Witness ==
  /\ Len(moveHistory) >= 3
  /\ NoStone(moveHistory[Len(moveHistory) - 2])
  /\ ~NoStone(moveHistory[Len(moveHistory) - 1])
  /\ NoStone(LastEntry)
  /\ pass(This).ret.gameEnd

\* C14: on a board without empty point holding N black and M white stones,
\* calculateScore gives black N points and white M + 7.5 points (2 * N and
\* 2 * M + 15 half points) and no territory to either side, whatever the move
\* log, the tallies, the ko point and the player to move are.
C14_FullBoardScore ==
  (\A c \in Cells : At(board, c) # EMPTY) =>
    LET r == calculateScore(This).ret
        N == Cardinality(StonesOf(board, BLACK))
        M == Cardinality(StonesOf(board, WHITE))
    IN /\ r.black = 2 * N /\ r.white = 2 * M + 15
       /\ r.blackStones = N /\ r.whiteStones = M
       /\ r.blackTerritory = 0 /\ r.whiteTerritory = 0

\* A full board of both colours with stones taken, a ko point, a log and
\* White to move, on which Black has more stones and White more points.
C14_Witness ==
  /\ \A c \in Cells : At(board, c) # EMPTY
  /\ StonesOf(board, BLACK) # {} /\ StonesOf(board, WHITE) # {}
  /\ capturedBlack > 0 /\ capturedWhite > 0
  /\ koPoint # null /\ moveHistory # << >> /\ currentPlayer = WHITE
  /\ Cardinality(StonesOf(board, BLACK)) > Cardinality(StonesOf(board, WHITE))
  /\ calculateScore(This).ret.winner = WHITE

\* The placements the rules allow a colour on a board with a ko point: an
\* empty cell that is not the ko point and where the stone takes something
\* or its chain keeps a liberty.
LegalAt(b, c, color) ==
  /\ At(b, c) = EMPTY
  /\ ~(Smothered(b, c, color) /\ TakenBy(b, c, color) = {})
LegalCells(color) == {c \in Cells : LegalAt(board, c, color) /\ ~IsKo(c)}
CellOf(m) == <<m[1].x, m[1].y>>

\* The calls of getMove examined: the game's selector asked for either
\* colour at the levels easy and medium; at level hard for the colour to
\* move, on boards with at most RolloutCells empty cells.
RolloutCells == 4
OpenCells == {c \in Cells : At(board, c) = EMPTY}
Selections ==
  {s \in {ai[1]} \X Players :
     s[1] = "hard" => (s[2] = currentPlayer /\ Cardinality(OpenCells) <= RolloutCells)}

\* C15: getMove, at each of the levels easy, medium and hard and whatever
\* the random source gives, leaves the engine as it found it: board, turn,
\* tallies, ko point, last move, move log, snapshots.
C15_GetMoveChangesNothing ==
  \A s \in Selections :
    \A answer \in getMove(This, s[1], s[2]) : answer.e = This

\* After a ply that took stones, with a log and a snapshot, the selector has
\* several moves to try on the board.
C15_Witness ==
  /\ Len(moveHistory) = 1 /\ Len(boardHistory) = 1
  /\ capturedBlack + capturedWhite > 0
  /\ Cardinality(LegalCells(currentPlayer)) >= 2
  /\ ai = Obj("medium")
  /\ \A answer \in getMove(This, ai[1], currentPlayer) : answer.ret # null

\* C16: getMove returns null exactly when the colour has no legal placement;
\* otherwise, at every level and for every draw, it returns a position that
\* isValidMove accepts for that colour.
C16_NullIffNoLegalMove ==
  \A s \in Selections : \A answer \in getMove(This, s[1], s[2]) :
    LET color == s[2]
        m == answer.ret
    IN /\ m = null <=> LegalCells(color) = {}
       /\ m # null =>
            /\ CellOf(m) \in LegalCells(color)
            /\ isValidMove(This, m[1].x, m[1].y, color).ret.valid

\* The only placement open to the colour to move is barred by the ko point,
\* and the selector returns null.
C16_Witness ==
  /\ \E c \in Cells : IsKo(c) /\ LegalAt(board, c, currentPlayer)
  /\ LegalCells(currentPlayer) = {}
  /\ ai = Obj("hard")
  /\ \A answer \in getMove(This, ai[1], currentPlayer) : answer.ret = null

\* The legal placements that take stones, and those whose chain would have
\* two liberties or more.
CapturingCells(color) == {c \in LegalCells(color) : TakenBy(board, c, color) # {}}
SafeCells(color) ==
  {c \in LegalCells(color) :
     Cardinality(LibertiesOf(With(board, c, color),
                             ChainOf(With(board, c, color), c))) >= 2}

\* C17: at level easy, for every draw, the returned move is a capturing one
\* if there is any; otherwise one whose chain would have two liberties or
\* more if there is any; otherwise some legal move. When the only legal move
\* captures, it is the move returned.
C17_EasyPreference ==
  \A color \in Players : \A answer \in getMove(This, "easy", color) :
    LET m == answer.ret
    IN LegalCells(color) # {} =>
         /\ m # null
         /\ IF CapturingCells(color) # {} THEN CellOf(m) \in CapturingCells(color)
            ELSE IF SafeCells(color) # {} THEN CellOf(m) \in SafeCells(color)
            ELSE CellOf(m) \in LegalCells(color)
         /\ (Cardinality(LegalCells(color)) = 1 /\ CapturingCells(color) # {})
              => {CellOf(m)} = LegalCells(color)

\* No move takes stones, some legal moves are safe and some are not.
C17_Witness ==
  /\ CapturingCells(currentPlayer) = {}
  /\ SafeCells(currentPlayer) # {}
  /\ LegalCells(currentPlayer) \ SafeCells(currentPlayer) # {}

\* c comes before d in the order of getAllValidMoves.
Before(c, d) == c[1] < d[1] \/ (c[1] = d[1] /\ c[2] < d[2])
ScoreOf(c, color) == evaluateMove(This, c[1], c[2], color).ret

\* C18: at level medium the returned move is legal, no legal move has a higher
\* static evaluation, and every legal move before it in the order of
\* getAllValidMoves (x ascending, then y ascending) has a lower one.
C18_MediumFirstMaximum ==
  \A color \in Players : \A answer \in getMove(This, "medium", color) :
  LET m == answer.ret
  IN LegalCells(color) # {} =>
       /\ m # null /\ CellOf(m) \in LegalCells(color)
       /\ \A c \in LegalCells(color) :
            /\ ScoreOf(c, color) <= ScoreOf(CellOf(m), color)
            /\ Before(c, CellOf(m)) => ScoreOf(c, color) < ScoreOf(CellOf(m), color)

\* Two legal moves share the highest evaluation.
C18_Witness ==
  \E c \in LegalCells(currentPlayer), d \in LegalCells(currentPlayer) :
    /\ c # d
    /\ ScoreOf(c, currentPlayer) = ScoreOf(d, currentPlayer)
    /\ \A o \in LegalCells(currentPlayer) :
         ScoreOf(o, currentPlayer) <= ScoreOf(c, currentPlayer)

\* The board after the colour places a stone at c by the rules: the stone is
\* on the board and the chains it leaves without liberty are removed.
AfterPlacement(b, c, color) ==
  LET taken == TakenBy(b, c, color)
  IN [i \in Idx |-> [j \in Idx |->
        IF <<i, j>> = c THEN color
        ELSE IF <<i, j>> \in taken THEN EMPTY
        ELSE b[i][j]]]

\* Every iteration of the rollout loop from its locals s on follows the rules,
\* whatever is drawn: a pass is made only when the colour has no legal
\* placement, and a stone is placed on a cell legal for the colour, the stones
\* it takes are removed.
RECURSIVE RolloutObeysRules(_)
RolloutObeysRules(s) ==
  IF ~SimRuns(s) THEN TRUE
  ELSE \A next \in SimStep(s) :
         LET color == s.currentColor
             legal == {c \in Cells : LegalAt(s.simBoard, c, color)}
         IN /\ IF next.passCount > 0 THEN legal = {}
               ELSE \E c \in legal :
                      next.simBoard = AfterPlacement(s.simBoard, c, color)
            /\ RolloutObeysRules(next)

\* C19: in a rollout of the hard level, from the board with the candidate
\* move on, every stone is placed where the rules accept it for the colour to
\* move (an empty cell, no suicide), the chains it takes are removed, and a
\* colour passes only when it has no legal placement.
C19_RolloutObeysRules ==
  ai = Obj("hard") =>
    LET validMoves == getAllValidMoves(This, currentPlayer).ret
    IN \A k \in 1 .. Len(validMoves) :
         RolloutObeysRules(SimStart(This, validMoves[k], currentPlayer))

\* C20: in a selection at the hard level with n candidates, every candidate
\* gets the same number of rollouts and the rollouts of all candidates
\* together are no more than the budget of 500.
C20_RolloutBudget ==
  LET validMoves == getAllValidMoves(This, currentPlayer).ret
      n == Len(validMoves)
      runs == {rollouts.i : rollouts \in
                 UNION {RolloutLoop(This, validMoves[k], currentPlayer, n) :
                        k \in 1 .. n}}
  IN (ai = Obj("hard") /\ n >= 1) =>
       /\ Cardinality(runs) = 1
       /\ \A count \in runs : n * count <= 500

(***************************************************************************)
(* C21 .. C30: persistence, territory and score, and the game flow.        *)
(***************************************************************************)
\* The engine after loadState(getBoardState()).
RoundTrip == loadState(This, getBoardState(This).ret).e

\* C21: loadState(getBoardState()) leaves the board, the player to move, the
\* tallies, the last move, the ko point, the move log and the snapshot history
\* as they were, and an undoMove after the round trip does what it would have
\* done before it.
C21_RoundTripKeepsLogs ==
  /\ RoundTrip = This
  /\ undoMove(RoundTrip) = undoMove(This)

\* The maximal 4-connected sets of empty cells of a board, and the colours
\* of the stones next to one of them.
EmptyCells(b) == {c \in Cells : At(b, c) = EMPTY}
RegionsOf(b) == {Closure(b, EMPTY, {c}) : c \in EmptyCells(b)}
Touches(b, R, color) == \E c \in R, n \in Cells : Adjacent(c, n) /\ At(b, n) = color
\* The cells of the regions that touch the first colour and not the second.
OwnedBy(b, color, other) ==
  UNION {R \in RegionsOf(b) : Touches(b, R, color) /\ ~Touches(b, R, other)}

\* C25: calculateTerritory credits a whole region of empty cells to black
\* when it touches black stones only, to white when it touches white stones
\* only, and to neutral otherwise; the three counts add up to the number of
\* empty cells.
C25_TerritoryByRegion ==
  LET t == calculateTerritory(This).ret
      black == Cardinality(OwnedBy(board, BLACK, WHITE))
      white == Cardinality(OwnedBy(board, WHITE, BLACK))
  IN /\ t.black = black
     /\ t.white = white
     /\ t.neutral = Cardinality(EmptyCells(board)) - black - white
     /\ (EmptyCells(board) = Cells => t.neutral = Size * Size)

\* A position with a black region, a white region and two neutral regions
\* or more, one of them touching both colours.
C25_Witness ==
  LET t == calculateTerritory(This).ret
  IN /\ t.black >= 1 /\ t.white >= 1 /\ t.neutral >= 2
     /\ Cardinality(RegionsOf(board)) >= 4
     /\ \E R \in RegionsOf(board) :
          Touches(board, R, BLACK) /\ Touches(board, R, WHITE)

\* The two scores of a board in half points, from the regions.
ScoresOf(b, komi) ==
  [black |-> Halves(Cardinality(StonesOf(b, BLACK))
                    + Cardinality(OwnedBy(b, BLACK, WHITE))),
   white |-> Halves(Cardinality(StonesOf(b, WHITE))
                    + Cardinality(OwnedBy(b, WHITE, BLACK))) + komi]

\* C26: calculateScore names as winner the side whose score (stones plus
\* territory, plus 7.5 points for white) is strictly greater, its margin is
\* the absolute difference of the two scores, and the two scores differ.
C26_WinnerAndMargin ==
  LET r == calculateScore(This).ret
      s == ScoresOf(board, KomiHalves)
  IN /\ r.black = s.black /\ r.white = s.white
     /\ s.black # s.white
     /\ (s.black > s.white => r.winner = BLACK /\ r.margin = s.black - s.white)
     /\ (s.white > s.black => r.winner = WHITE /\ r.margin = s.white - s.black)

\* Black wins by a point and a half: the whole board against white's seven
\* and a half, most of it territory.
C26_Witness ==
  LET r == calculateScore(This).ret
  IN /\ r.winner = BLACK /\ r.margin = 3
     /\ r.blackTerritory > r.blackStones

\* The whole numbers of points added to white's score that the tie claim
\* is asked about, in half points.
KomiChoices == {Halves(k) : k \in 0 .. Size}
TieAt(komi) == LET s == ScoresOf(board, komi) IN s.black = s.white

\* C27 as stated: when black's score equals white's, the winner reported
\* is BLACK.
C27_TieGoesToBlack ==
  \A komi \in KomiChoices :
    TieAt(komi) => calculateScoreAt(This, komi).ret.winner = BLACK

\* C27 as amended: when black's score equals white's, the winner reported
\* is WHITE and the margin is zero.
C27_TieGoesToWhite ==
  \A komi \in KomiChoices :
    TieAt(komi) =>
      LET r == calculateScoreAt(This, komi).ret
      IN r.winner = WHITE /\ r.margin = 0 /\ r.black = r.white

\* A tie with stones of both colours on the board and more than no points
\* added to white's score.
C27_Witness ==
  \E komi \in KomiChoices \ {0} :
    /\ TieAt(komi)
    /\ StonesOf(board, BLACK) # {} /\ StonesOf(board, WHITE) # {}
    /\ calculateScoreAt(This, komi).ret.winner = WHITE

\* The engine after the button of slot slotIndex is clicked in the load dialog.
LoadedRules(slotIndex) == loadSlot(Game, slotIndex).rules
Latest(history) == history[Len(history)]

\* C22: a slot is a snapshot of the game at the time it was saved.  Whatever
\* was played since, loading it brings back the saved board, player, tallies,
\* last move and ko point with a move log of the saved length (moveCount, the
\* length written into the record when it was saved), a snapshot history one
\* longer, and a latest snapshot that shows the restored board and player.
C22_SlotIsSnapshot ==
  On(GameState.LOAD_DIALOG) =>
    \A slotIndex \in Slots :
      slotIndex < Len(saves) =>
        LET data == saves[slotIndex + 1]
            e == LoadedRules(slotIndex)
        IN /\ e.board = data.board
           /\ e.currentPlayer = data.currentPlayer
           /\ e.capturedBlack = data.capturedBlack
           /\ e.capturedWhite = data.capturedWhite
           /\ e.lastMove = data.lastMove
           /\ e.koPoint = data.koPoint
           /\ Len(e.moveHistory) = data.moveCount
           /\ Len(e.boardHistory) = data.moveCount + 1
           /\ Latest(e.boardHistory).board = e.board
           /\ Latest(e.boardHistory).currentPlayer = e.currentPlayer

\* The slot indices that name no save: one before the first, the first free
\* one and the last button of the dialog.
NoSuchSlot == {-1, Len(saves), MAX_SAVES - 1} \ (0 .. (Len(saves) - 1))

\* C24: loading a slot index outside [0, number of saves) fails and leaves
\* the engine, the opponent configuration, the slots and the screen as they
\* were.
C24_FailedLoadChangesNothing ==
  \A slotIndex \in NoSuchSlot :
    /\ ~loadGame(saves, slotIndex).success
    /\ loadSlot(Game, slotIndex) = Game

\* The load dialog over a game in progress with one save, after a game that
\* ended: the second button names no save.
C24_Witness ==
  /\ On(GameState.LOAD_DIALOG)
  /\ Len(saves) = 1 /\ Len(moveHistory) > 0 /\ gameResult # null
  /\ ~loadGame(saves, 1).success
  /\ loadSlot(Game, 1) = Game
  /\ loadSlot(Game, 0) # Game

\* The game after it is saved into the first slot and that slot is loaded.
SavedAndLoaded == loadSlot(saveSlot(Game, 0), 0)

\* C23: saving a game and loading the slot brings back the mode, the
\* selector's colour and level and the human's colour as they were when it
\* was saved, so that in a game against the selector the human's colour is
\* not the selector's.
C23_ConfigurationRestored ==
  On(GameState.PLAYING) =>
    /\ SavedAndLoaded.gameMode = gameMode
    /\ SavedAndLoaded.aiColor = gameAiColor
    /\ SavedAndLoaded.aiLevel = aiLevel
    /\ SavedAndLoaded.playerColor = playerColor
    /\ (gameMode = GameMode.PVE =>
          SavedAndLoaded.playerColor # SavedAndLoaded.aiColor)

\* C28: in a game against the selector, once the undo button has been
\* handled it is the human's turn.
C28_UndoGivesHumanTheTurn ==
  [][(ClickUndo /\ gameMode = GameMode.PVE) => currentPlayer' = playerColor']_vars

\* The step appends a pass to a move log that ended with a pass.
SecondPass ==
  /\ Len(moveHistory') = Len(moveHistory) + 1
  /\ Len(moveHistory) >= 1
  /\ SubSeq(moveHistory', 1, Len(moveHistory)) = moveHistory
  /\ IsPassEntry(Latest(moveHistory))
  /\ IsPassEntry(Latest(moveHistory'))

\* C29: when a step makes the move log end with two passes in a row, be the
\* second pass the human's or the selector's, the game is over after it and
\* the result holds the score of the position.
C29_TwoPassesEndTheGame ==
  [][SecondPass =>
       /\ gameState' = GameState.GAME_OVER
       /\ gameResult' = Obj(calculateScoreAt(
            [board |-> board', currentPlayer |-> currentPlayer',
             capturedBlack |-> capturedBlack', capturedWhite |-> capturedWhite',
             lastMove |-> lastMove', koPoint |-> koPoint',
             moveHistory |-> moveHistory', boardHistory |-> boardHistory'],
            KomiHalves).ret)]_vars

\* It is the selector's turn in a game on the board with a callback pending,
\* and the log has room for its ply.
SelectorDue ==
  /\ gameMode = GameMode.PVE
  /\ On(GameState.PLAYING)
  /\ Len(moveHistory) > 0
  /\ currentPlayer = gameAiColor
  /\ timers > 0
  /\ LogFits(Len(moveHistory) + 1) /\ Len(moveHistory) # FlowPlies

\* C30: in every run that keeps coming back to the playing screen, whenever
\* it is the selector's turn after a ply of the human with its callback
\* pending, the turn eventually passes on (the selector has placed a stone or
\* passed, or the game has ended), the callbacks that are due being run and
\* the human opening and closing the dialogs at will.
C30_SelectorEventuallyMoves ==
  ([]<>On(GameState.PLAYING)) =>
    (SelectorDue ~> (currentPlayer # gameAiColor \/ On(GameState.GAME_OVER)))
(***************************************************************************)
(* C31 .. C37                                                              *)
(***************************************************************************)
\* The step is a callback that came due and put a ply (a stone or a pass) on
\* the move log: only TimerFires takes a callback off the pending ones.
SelectorPlied ==
  /\ timers' = timers - 1
  /\ Len(moveHistory') = Len(moveHistory) + 1

\* C31: a makeAIMove callback places no stone and records no pass while the
\* game is one of two humans.
C31_NoSelectorPlyInPvp ==
  [][SelectorPlied => gameMode # GameMode.PVP]_vars

\* The step puts a ply of the selector's colour on the move log of a game
\* against the selector.
SelectorColourPlied ==
  /\ gameMode = GameMode.PVE /\ On(GameState.PLAYING)
  /\ Len(moveHistory') = Len(moveHistory) + 1
  /\ moveHistory'[Len(moveHistory')].player = gameAiColor

\* C32: in a game against the selector every ply of the selector's colour is
\* put on the log by a makeAIMove callback, never by a tap on the board or
\* by the pass button.
C32_SelectorPliesAreItsOwn ==
  [][SelectorColourPlied => timers' = timers - 1]_vars

\* C33: in a game against the selector the resign button makes the
\* selector's colour the winner whenever it is pressed.
C33_ResignGivesSelectorTheGame ==
  [][(ClickResign /\ gameMode = GameMode.PVE)
       => gameResult'[1].winner = gameAiColor]_vars

\* C34: after any sequence of placements by either colour, passes and undos,
\* every chain of stones on the board has a liberty.
C34_NoDeadStones ==
  \A c \in Cells :
    At(board, c) # EMPTY => LibertiesOf(board, ChainOf(board, c)) # {}

\* Stones have been taken off the board, and a chain on it is left with a
\* single liberty.
C34_Witness ==
  /\ capturedBlack + capturedWhite > 0
  /\ \E c \in Cells :
       /\ At(board, c) # EMPTY
       /\ Cardinality(LibertiesOf(board, ChainOf(board, c))) = 1

\* The live fields as saveBoardState copies them.
LiveSnapshot ==
  [board |-> board, currentPlayer |-> currentPlayer,
   capturedBlack |-> capturedBlack, capturedWhite |-> capturedWhite,
   koPoint |-> koPoint, lastMove |-> lastMove]

\* The snapshots that both the history before a step and the history after
\* it hold, the latest left aside, are the same.
EarlierSnapshotsKept ==
  \A i \in 1 .. (Len(boardHistory) - 1) :
    i < Len(boardHistory') => boardHistory'[i] = boardHistory[i]

\* C35: the latest snapshot of boardHistory holds the board, the player to
\* move, the capture tallies, the ko point and the last move of the live
\* engine, and no step alters an earlier snapshot.
C35_LatestSnapshotMirrorsLive ==
  /\ [](boardHistory # << >> /\ Latest(boardHistory) = LiveSnapshot)
  /\ [][EarlierSnapshotsKept]_vars

\* A pass was the latest ply, after a placement that took a stone: the last
\* move and the tallies that the snapshot mirrors are those of the placement.
C35_Witness ==
  /\ Len(moveHistory) >= 2
  /\ IsPassEntry(moveHistory[Len(moveHistory)])
  /\ lastMove # null
  /\ capturedBlack + capturedWhite > 0
  /\ Latest(boardHistory) = LiveSnapshot

\* The cells that a step empties.
Emptied == {c \in Cells : At(board, c) # EMPTY /\ At(board', c) = EMPTY}

\* The step is a placement that leaves a ko point.
KoSet ==
  /\ Len(moveHistory') = Len(moveHistory) + 1
  /\ koPoint' # null

\* C36: a ko point is an empty cell of the board, and right after the
\* placement that set it, it is the cell of the one stone that the placement
\* captured.
C36_KoPointIsCapturedCell ==
  /\ [](koPoint # null =>
          /\ isOnBoard(koPoint[1].x, koPoint[1].y)
          /\ board[koPoint[1].x][koPoint[1].y] = EMPTY)
  /\ [][KoSet => Emptied = {<<koPoint'[1].x, koPoint'[1].y>>}]_vars

\* A ko point stands next to the stone that was just placed, which has
\* another empty cell at a diagonal.
C36_Witness ==
  /\ koPoint # null /\ lastMove # null
  /\ Adjacent(<<koPoint[1].x, koPoint[1].y>>, <<lastMove[1].x, lastMove[1].y>>)
  /\ Cardinality(StonesOf(board, EMPTY)) >= 2

\* The record holds what the given state of a game holds.
RecordOf(record, state) ==
  /\ record.gameMode = state.gameMode /\ record.aiLevel = state.aiLevel
  /\ record.aiColor = state.aiColor
  /\ record.board = state.board
  /\ record.currentPlayer = state.currentPlayer
  /\ record.moveCount = Len(state.moveHistory)

\* What saveGame does to the list, record by record.
SavedAsClaimed(after, state, slotIndex) ==
  LET n == Len(saves)
  IN IF slotIndex >= 0 /\ slotIndex < n
       THEN /\ Len(after) = n
            /\ RecordOf(after[slotIndex + 1], state)
            /\ \A i \in 1 .. n : i # slotIndex + 1 => after[i] = saves[i]
     ELSE IF n = MAX_SAVES
       THEN /\ Len(after) = MAX_SAVES
            /\ RecordOf(after[MAX_SAVES], state)
            /\ \A i \in 1 .. (MAX_SAVES - 1) : after[i] = saves[i + 1]
     ELSE /\ Len(after) = n + 1
          /\ RecordOf(after[n + 1], state)
          /\ \A i \in 1 .. n : after[i] = saves[i]

\* C37: the list of saves never holds more than MAX_SAVES records; saving
\* to an index of the list replaces that record alone; saving to any other
\* index appends a record, the first record of a full list being removed
\* first; deleting at an index outside the list fails and changes nothing.
C37_SlotListBounded ==
  /\ Len(saves) <= MAX_SAVES
  /\ \A slotIndex \in SlotIndices, level \in Levels :
       SavedAsClaimed(saveGame(saves, Levelled(level), slotIndex).saves,
                      Levelled(level), slotIndex)
  /\ \A slotIndex \in SlotIndices :
       (slotIndex < 0 \/ slotIndex >= Len(saves)) =>
         /\ ~deleteSave(saves, slotIndex).ret.success
         /\ deleteSave(saves, slotIndex).saves = saves

\* A full list whose two oldest records differ: the next save at index -1
\* removes the oldest, and a save at index 0 replaces it.
C37_Witness ==
  /\ Len(saves) = MAX_SAVES
  /\ saves[1] # saves[2]
  /\ saveGame(saves, Levelled("hard"), -1).saves[1] = saves[2]
  /\ saveGame(saves, Levelled("hard"), 0).saves[2] = saves[2]
  /\ deleteSave(saves, 0).ret.success

====
